---- MODULE Spec2Model ----
(***************************************************************************)
(* Market-data aggregation engine of the stock tracker: symbol            *)
(* normalisation, the quote orchestrator (getQuotes and its provider      *)
(* cascade), the technical resolver and the quarterly-financials          *)
(* extractor, each with its TTL cache.                                    *)
(*                                                                         *)
(* Representation.  A JS string holding a ticker is a sequence of its     *)
(* dot-separated segments: "A.NS" is <<"A","NS">>, "" is <<>>.  A         *)
(* nullable number is <<>> (null) or <<n>>.  A Map is a function whose    *)
(* DOMAIN is the set of keys present.  Time is in milliseconds.           *)
(***************************************************************************)
EXTENDS Integers, Sequences, FiniteSets, TLC

\* ------------------------------------------------------------------ values

Null == <<>>
Num(n) == <<n>>
IsNull(x) == x = Null
Val(x) == x[1]

\* isMissingValue: null, undefined or ''.  The empty string of a text field
\* and the null of a numeric field are both the empty sequence here.
isMissingValue(value) == value = Null

\* firstFinite over an argument list: the first value that is a finite number.
RECURSIVE firstFinite(_)
firstFinite(values) ==
  IF values = <<>> THEN Null
  ELSE IF ~IsNull(Head(values)) THEN Head(values)
  ELSE firstFinite(Tail(values))

\* values.slice(-n)
SliceLast(s, n) == IF Len(s) <= n THEN s ELSE SubSeq(s, Len(s) - n + 1, Len(s))

SeqToSet(s) == {s[i] : i \in 1..Len(s)}

\* Array.from(new Set(list)): duplicates dropped, first occurrences kept in order.
Dedupe(s) ==
  LET firsts == {i \in 1..Len(s) : \A j \in 1..(i - 1) : s[j] # s[i]}
      rank == [i \in firsts |-> Cardinality({j \in firsts : j <= i})]
  IN [k \in 1..Cardinality(firsts) |-> s[CHOOSE i \in firsts : rank[i] = k]]

\* list.filter(pred) for a predicate given as the set of values it accepts
RECURSIVE FilterIn(_, _)
FilterIn(s, keep) ==
  IF s = <<>> THEN <<>>
  ELSE IF Head(s) \in keep THEN <<Head(s)>> \o FilterIn(Tail(s), keep)
  ELSE FilterIn(Tail(s), keep)

\* ------------------------------------------------------------- symbols

\* trim().toUpperCase().replace(/\s+/g, '') on one segment of the alphabet used
CleanSegment(seg) ==
  CASE seg = "a" -> "A"
    [] seg = " A " -> "A"
    [] seg = "ns" -> "NS"
    [] seg = "bo" -> "BO"
    [] OTHER -> seg

\* /^\d{5,6}$/ on a base made of segments
NumericSegments == {"500325", "12345"}
IsNumericCode(base) == Len(base) = 1 /\ base[1] \in NumericSegments

\* segments holding a character outside [A-Z0-9\-_.] after cleaning
ForeignSegments == {"A&B"}

ExchangeParts == {"NSE", "NS", "BSE", "BO"}
EXCHANGE_SUFFIX_MAP(part) == IF part \in {"NSE", "NS"} THEN "NS" ELSE "BO"

\* extractScreenerCompanyCode: the 5-6 digit code of a screener.in company URL
ScreenerUrlSegment == "screener.in/company/500325"
extractScreenerCompanyCode(input) ==
  IF Len(input) = 1 /\ input[1] = ScreenerUrlSegment THEN <<"500325">> ELSE <<>>

\* symbolPart.replace(/\.(NS|BO)$/i, ''): one trailing .NS / .BO segment dropped
StripNsBo(part) ==
  IF Len(part) >= 2 /\ part[Len(part)] \in {"NS", "BO"}
  THEN SubSeq(part, 1, Len(part) - 1)
  ELSE part

\* the screener-URL shortcut and trim().toUpperCase() of normalizeIndianSymbol
TrimmedInput(input) ==
  LET screenerCode == extractScreenerCompanyCode(input)
      normalizedInput == IF screenerCode # <<>> THEN screenerCode ELSE input
  IN [i \in 1..Len(normalizedInput) |-> CleanSegment(normalizedInput[i])]

\* the exchange rules of normalizeIndianSymbol on the two regex groups
NormalizedFromParts(base, hasExchange, exchangePart) ==
  IF ~hasExchange
    THEN IF IsNumericCode(base) THEN Append(base, "BO") ELSE Append(base, "NS")
  ELSE IF IsNumericCode(base) /\ exchangePart \in {"NSE", "NS"}
    THEN Append(base, "BO")
  ELSE Append(base, EXCHANGE_SUFFIX_MAP(exchangePart))

\* the regex match of normalizeIndianSymbol: the lazy group takes the shortest
\* prefix that lets the optional exchange suffix and $ match, that is all but
\* a final exchange segment; without a match the trimmed text is returned
NormalizedFromMatch(trimmed, hasExchange) ==
  IF \E i \in 1..Len(trimmed) : trimmed[i] \in ForeignSegments THEN trimmed
  ELSE NormalizedFromParts(
         StripNsBo(IF hasExchange THEN SubSeq(trimmed, 1, Len(trimmed) - 1) ELSE trimmed),
         hasExchange,
         IF hasExchange THEN trimmed[Len(trimmed)] ELSE "")

HasExchangePart(trimmed) ==
  Len(trimmed) >= 2 /\ trimmed[Len(trimmed)] \in ExchangeParts

TrimmedToSymbol(trimmed) == NormalizedFromMatch(trimmed, HasExchangePart(trimmed))

normalizeIndianSymbol(input) ==
  IF input = <<>> THEN <<>> ELSE TrimmedToSymbol(TrimmedInput(input))

stripExchangeSuffix(symbol) == StripNsBo(symbol)

defaultExchangeFromSymbol(symbol) ==
  IF Len(symbol) >= 2 /\ symbol[Len(symbol)] = "BO" THEN "BSE" ELSE "NSE"

cacheKey(symbol) == normalizeIndianSymbol(symbol)

\* asList: normalise, drop the empty results, de-duplicate keeping first occurrences
asList(input) ==
  LET mapped == [i \in 1..Len(input) |-> normalizeIndianSymbol(input[i])]
      kept == FilterIn(mapped, SeqToSet(mapped) \ {<<>>})
  IN Dedupe(kept)

\* -------------------------------------------------------------- quotes

Txt(s) == <<s>>

\* The fields of a quote that the orchestrator reads or decides on.  marketCap
\* stands for the fundamentals that needsQuoteEnrichment and
\* mergeQuoteMissingFields treat alike (volume, pe, eps, pb, ...).
NullQuote == [symbol |-> <<>>]
IsNullQuote(q) == q.symbol = <<>>

\* what a provider adapter hands back for one symbol, before normalizeQuoteShape;
\* shortName stands for shortName and longName, and is absent unless given
RawQuote(symbol, price, lastPrice, previousClose, dayHigh, marketCap, ema50, ema200, sma, stage, source) ==
  [symbol |-> symbol, shortName |-> Null,
   regularMarketPrice |-> price, lastPrice |-> lastPrice,
   previousClose |-> previousClose, dayHigh |-> dayHigh, dayLow |-> Null,
   marketCap |-> marketCap, ema50 |-> ema50, ema200 |-> ema200,
   thirtyWeekSma |-> sma, marketCycleStage |-> stage,
   source |-> source, dataStatus |-> Null, providerTrace |-> <<>>]

normalizeQuoteShape(inputQuote) ==
  LET symbol == normalizeIndianSymbol(inputQuote.symbol)
      previousClose == firstFinite(<<inputQuote.previousClose>>)
      regularMarketPrice == firstFinite(<<inputQuote.regularMarketPrice,
                                          inputQuote.lastPrice,
                                          previousClose,
                                          inputQuote.dayHigh,
                                          inputQuote.dayLow>>)
  IN IF symbol = <<>> THEN NullQuote
     ELSE [symbol |-> symbol,
           shortName |-> IF inputQuote.shortName # Null THEN inputQuote.shortName
                         ELSE stripExchangeSuffix(symbol),
           regularMarketPrice |-> regularMarketPrice,
           previousClose |-> previousClose,
           marketCap |-> firstFinite(<<inputQuote.marketCap>>),
           ema50 |-> firstFinite(<<inputQuote.ema50>>),
           ema200 |-> firstFinite(<<inputQuote.ema200>>),
           thirtyWeekSma |-> firstFinite(<<inputQuote.thirtyWeekSma>>),
           marketCycleStage |-> inputQuote.marketCycleStage,
           source |-> IF inputQuote.source = <<>> THEN <<"unknown">> ELSE inputQuote.source,
           dataStatus |-> IF inputQuote.dataStatus = Null THEN "live"
                          ELSE Val(inputQuote.dataStatus),
           providerTrace |-> inputQuote.providerTrace]

\* a slip in isUsableQuote: the sign test left out
isUsableQuoteAnyPrice(quote) ==
  ~IsNullQuote(quote) /\ ~IsNull(quote.regularMarketPrice)

isUsableQuote(quote) ==
  ~IsNullQuote(quote) /\ ~IsNull(quote.regularMarketPrice)
    /\ Val(quote.regularMarketPrice) > 0

needsQuoteEnrichment(quote) ==
  \/ isMissingValue(quote.marketCap)
  \/ isMissingValue(quote.ema50)
  \/ isMissingValue(quote.ema200)
  \/ isMissingValue(quote.thirtyWeekSma)
  \/ isMissingValue(quote.marketCycleStage)

TRACE_LIMIT == 40

FillableFields == <<"marketCap", "ema50", "ema200", "thirtyWeekSma",
                    "marketCycleStage", "previousClose">>

\* the fillable fields that are missing in the base and present in the candidate
FilledFields(baseQuote, candidateQuote) ==
  FilterIn(FillableFields,
           {f \in SeqToSet(FillableFields) :
              isMissingValue(baseQuote[f]) /\ ~isMissingValue(candidateQuote[f])})

\* a slip in mergeQuoteMissingFields: the candidate's value is taken for
\* every fillable field it has one for
mergeQuoteMissingFieldsOverwrite(baseQuote, candidateQuote, provider) ==
  [f \in DOMAIN baseQuote |->
     IF f \in SeqToSet(FillableFields) \cup {"shortName"} /\ ~isMissingValue(candidateQuote[f])
     THEN candidateQuote[f] ELSE baseQuote[f]]

\* the shortName is also filled when it is the bare symbol, the name
\* normalizeQuoteShape gives a quote that came without one
mergeQuoteMissingFields(baseQuote, candidateQuote, provider) ==
  LET nameFilled == /\ \/ isMissingValue(baseQuote.shortName)
                       \/ baseQuote.shortName = stripExchangeSuffix(baseQuote.symbol)
                    /\ ~isMissingValue(candidateQuote.shortName)
      filledFields == FilledFields(baseQuote, candidateQuote)
                        \o (IF nameFilled THEN <<"shortName">> ELSE <<>>)
      filled == SeqToSet(filledFields)
      merged == [f \in DOMAIN baseQuote |->
                   IF f \in filled THEN candidateQuote[f] ELSE baseQuote[f]]
  IN IF filledFields = <<>> THEN merged
     ELSE [merged EXCEPT !.providerTrace =
             SliceLast(Append(merged.providerTrace, <<"enrich", provider, filledFields>>),
                       TRACE_LIMIT)]

\* String(source).includes(':stale')
IncludesStale(source) == \E i \in 2..Len(source) : source[i] = "stale"

\* a slip in createUnavailableQuote: the placeholder's dataStatus left to the
\* default of normalizeQuoteShape
createUnavailableQuoteDefaultStatus(symbol, reason, staleValue, attempts) ==
  IF ~IsNullQuote(staleValue)
  THEN [staleValue EXCEPT
          !.dataStatus = "stale",
          !.source = IF IncludesStale(staleValue.source) THEN staleValue.source
                     ELSE Append(staleValue.source, "stale")]
  ELSE normalizeQuoteShape(
         RawQuote(symbol, Null, Null, Null, Null, Null, Null, Null, Null, Null,
                  <<"unavailable">>))

\* a slip in createUnavailableQuote: the stale value ignored
createUnavailableQuoteNoStale(symbol, reason, staleValue, attempts) ==
  normalizeQuoteShape(
    [RawQuote(symbol, Null, Null, Null, Null, Null, Null, Null, Null, Null,
              <<"unavailable">>)
       EXCEPT !.dataStatus = Num("unavailable")])

\* a slip in createUnavailableQuote: the suffix appended without looking
createUnavailableQuoteSuffixAgain(symbol, reason, staleValue, attempts) ==
  IF ~IsNullQuote(staleValue)
  THEN [staleValue EXCEPT
          !.dataStatus = "stale",
          !.source = Append(staleValue.source, "stale"),
          !.providerTrace = SliceLast(staleValue.providerTrace \o attempts
                                        \o << <<"stale-cache", reason>> >>, TRACE_LIMIT)]
  ELSE normalizeQuoteShape(
         [RawQuote(symbol, Null, Null, Null, Null, Null, Null, Null, Null, Null,
                   <<"unavailable">>)
            EXCEPT !.dataStatus = Num("unavailable"),
                   !.providerTrace = SliceLast(Append(attempts, <<"unavailable", reason>>),
                                               TRACE_LIMIT)])

\* createUnavailableQuote(symbol, reason, staleValue, attempts); staleValue may
\* be NullQuote (no cache entry)
createUnavailableQuote(symbol, reason, staleValue, attempts) ==
  IF ~IsNullQuote(staleValue)
  THEN [staleValue EXCEPT
          !.dataStatus = "stale",
          !.source = IF IncludesStale(staleValue.source) THEN staleValue.source
                     ELSE Append(staleValue.source, "stale"),
          !.providerTrace = SliceLast(staleValue.providerTrace \o attempts
                                        \o << <<"stale-cache", reason>> >>, TRACE_LIMIT)]
  ELSE normalizeQuoteShape(
         [RawQuote(symbol, Null, Null, Null, Null, Null, Null, Null, Null, Null,
                   <<"unavailable">>)
            EXCEPT !.dataStatus = Num("unavailable"),
                   !.providerTrace = SliceLast(Append(attempts, <<"unavailable", reason>>),
                                               TRACE_LIMIT)])

\* ----------------------------------------------------------- providers

EmptyMap == [k \in {} |-> Null]
MapSet(m, k, v) == [x \in DOMAIN m \cup {k} |-> IF x = k THEN v ELSE m[x]]

Insert(s, i, x) == SubSeq(s, 1, i) \o <<x>> \o SubSeq(s, i + 1, Len(s))
IndexOf(s, x) == IF x \in SeqToSet(s) THEN CHOOSE i \in 1..Len(s) :
                      s[i] = x /\ \A j \in 1..(i - 1) : s[j] # x
                 ELSE 0

\* a slip in getEffectiveProviderOrder: bseindia pushed like screener
getEffectiveProviderOrderBsePushed(configured) ==
  LET order == Dedupe(SelectSeq(configured, LAMBDA provider : provider # ""))
      withBse == IF "bseindia" \in SeqToSet(order) THEN order
                 ELSE Append(order, "bseindia")
  IN IF "screener" \in SeqToSet(withBse) THEN withBse ELSE Append(withBse, "screener")

getEffectiveProviderOrder(configured) ==
  LET order == Dedupe(SelectSeq(configured, LAMBDA provider : provider # ""))
      nseIndex == IndexOf(order, "nseindia")
      withBse == IF "bseindia" \in SeqToSet(order) THEN order
                 ELSE IF nseIndex >= 1 THEN Insert(order, nseIndex, "bseindia")
                 ELSE <<"bseindia">> \o order
  IN IF "screener" \in SeqToSet(withBse) THEN withBse ELSE Append(withBse, "screener")

\* a slip in getProviderSkipReason: no provider is skipped
getProviderSkipReasonNone(provider, cfg) == ""

getProviderSkipReason(provider, cfg) ==
  IF provider = "twelvedata" /\ ~cfg.twelveDataApiKey THEN "missing-api-key"
  ELSE IF provider = "alphavantage" /\ ~cfg.alphaVantageApiKey THEN "missing-api-key"
  ELSE ""

\* The shapes of answer an adapter gives for one symbol it was asked about.
QuoteKinds == {"full", "bare", "prev", "zero", "empty"}
NoAnswer == "none"

\* the adapter's object for `symbol`: it echoes the symbol it was asked for and
\* tags its own name as the source
AdapterQuote(kind, symbol, provider) ==
  LET src == <<provider>>
  IN CASE kind = "full" ->
            RawQuote(symbol, Num(2500), Null, Num(2400), Null, Num(10), Num(2450),
                     Num(2300), Num(2350), Txt("Markup"), src)
       [] kind = "bare" ->
            RawQuote(symbol, Num(100), Null, Null, Null, Null, Null, Null, Null, Null, src)
       [] kind = "prev" ->
            RawQuote(symbol, Null, Null, Num(90), Null, Null, Null, Null, Null, Null, src)
       [] kind = "zero" ->
            RawQuote(symbol, Num(0), Num(100), Null, Null, Num(10), Null, Null, Null, Null, src)
       [] OTHER ->
            RawQuote(symbol, Null, Null, Null, Null, Null, Null, Null, Null, Null, src)

\* the provider names fetchProviderQuotes has an adapter for; for any other
\* name it returns an empty list and cannot fail
KnownProviders ==
  {"nseindia", "bseindia", "alphavantage", "tradingview", "twelvedata", "screener", "yahoo"}

\* what a provider may answer for one symbol, given the answers of the adapters
ProviderAnswers(provider, kinds) ==
  IF provider \in KnownProviders THEN kinds \cup {NoAnswer} ELSE {NoAnswer}

\* the list an adapter returns for `targets` when it answers resp[t] for target t
RECURSIVE ProviderQuotes(_, _, _)
ProviderQuotes(targets, resp, provider) ==
  IF targets = <<>> THEN <<>>
  ELSE LET t == Head(targets)
           rest == ProviderQuotes(Tail(targets), resp, provider)
       IN IF resp[t] = NoAnswer THEN rest
          ELSE <<AdapterQuote(resp[t], t, provider)>> \o rest

\* a slip in the first pass: an accepted symbol stays pending and a later
\* usable quote takes the place of the accepted one
RECURSIVE ResolveQuotesLastWins(_, _, _)
ResolveQuotesLastWins(providerQuotes, provider, st) ==
  IF providerQuotes = <<>> THEN st
  ELSE
    LET quote == normalizeQuoteShape(Head(providerQuotes))
        rest == Tail(providerQuotes)
    IN IF IsNullQuote(quote) \/ ~isUsableQuote(quote)
       THEN ResolveQuotesLastWins(rest, provider, st)
       ELSE ResolveQuotesLastWins(rest, provider,
              [st EXCEPT
                 !.resultMap = MapSet(@, quote.symbol,
                                 [quote EXCEPT !.providerTrace = <<<<"hit", provider>>>>]),
                 !.resultOrder = IF quote.symbol \in SeqToSet(@) THEN @
                                 ELSE Append(@, quote.symbol),
                 !.consumed = @ \cup {quote.symbol}])

\* fetchQuotesFromProviders, first pass, the loop over one provider's quotes
RECURSIVE ResolveQuotes(_, _, _)
ResolveQuotes(providerQuotes, provider, st) ==
  IF providerQuotes = <<>> THEN st
  ELSE
    LET quote == normalizeQuoteShape(Head(providerQuotes))
        rest == Tail(providerQuotes)
    IN IF IsNullQuote(quote) THEN ResolveQuotes(rest, provider, st)
       ELSE IF ~isUsableQuote(quote) THEN
         ResolveQuotes(rest, provider,
           [st EXCEPT
              !.unusable = @ \cup {quote.symbol},
              !.attemptsBySymbol =
                 IF quote.symbol \in DOMAIN @
                 THEN [@ EXCEPT ![quote.symbol] = Append(@, <<provider, "unusable">>)]
                 ELSE @])
       ELSE IF quote.symbol \in DOMAIN st.resultMap THEN ResolveQuotes(rest, provider, st)
       ELSE
         LET attempts == IF quote.symbol \in DOMAIN st.attemptsBySymbol
                         THEN st.attemptsBySymbol[quote.symbol] ELSE <<>>
         IN ResolveQuotes(rest, provider,
              [st EXCEPT
                 !.resultMap = MapSet(@, quote.symbol,
                                 [quote EXCEPT !.providerTrace =
                                    Append(attempts, <<"hit", provider>>)]),
                 !.resultOrder = Append(@, quote.symbol),
                 !.pending = @ \ {quote.symbol},
                 !.consumed = @ \cup {quote.symbol}])

\* a slip in the trailing loop: the test on `unusable` is missing
MarkMissesUnusableToo(targets, provider, st) ==
  [st EXCEPT !.attemptsBySymbol =
     [s \in DOMAIN @ |->
        IF s \in SeqToSet(targets) /\ s \notin st.consumed
        THEN Append(@[s], <<provider, "miss">>) ELSE @[s]]]

\* the trailing loop of one first-pass iteration: a miss for every target that
\* was neither consumed nor reported unusable
MarkMisses(targets, provider, st) ==
  [st EXCEPT !.attemptsBySymbol =
     [s \in DOMAIN @ |->
        IF s \in SeqToSet(targets) /\ s \notin st.consumed /\ s \notin st.unusable
        THEN Append(@[s], <<provider, "miss">>) ELSE @[s]]]

MarkAll(targets, entry, st) ==
  [st EXCEPT !.attemptsBySymbol =
     [s \in DOMAIN @ |-> IF s \in SeqToSet(targets) THEN Append(@[s], entry) ELSE @[s]]]

\* new Map(providerQuotes.map(normalizeQuoteShape).filter(Boolean).map(q => [q.symbol, q]))
RECURSIVE ProviderMap(_)
ProviderMap(providerQuotes) ==
  IF providerQuotes = <<>> THEN EmptyMap
  ELSE LET n == Len(providerQuotes)
           before == ProviderMap(SubSeq(providerQuotes, 1, n - 1))
           quote == normalizeQuoteShape(providerQuotes[n])
       IN IF IsNullQuote(quote) THEN before ELSE MapSet(before, quote.symbol, quote)

\* second pass: the targets of one iteration, in the Map's insertion order
EnrichTargets(st) ==
  FilterIn(st.resultOrder,
           {s \in DOMAIN st.resultMap : needsQuoteEnrichment(st.resultMap[s])})

EnrichQuotes(targets, providerQuotes, provider, st) ==
  LET providerMap == ProviderMap(providerQuotes)
  IN [st EXCEPT !.resultMap =
        [s \in DOMAIN @ |->
           IF s \in SeqToSet(targets) /\ s \in DOMAIN providerMap
           THEN mergeQuoteMissingFields(@[s], providerMap[s], provider)
           ELSE @[s]]]

\* ---------------------------------------------------------- technicals

NullSnapshot == [ema50 |-> Null, ema200 |-> Null, thirtyWeekSma |-> Null,
                 marketCycleStage |-> Null, source |-> <<>>]
IsNullSnapshot(snapshot) == snapshot.source = <<>>

\* a slip in classifyWeinsteinStage: any slope other than 0 counts as rising
\* or falling
classifyWeinsteinStageAnySlope(close, sma30Week, prevSma30Week) ==
  IF IsNull(close) \/ IsNull(sma30Week) \/ IsNull(prevSma30Week) THEN Null
  ELSE
    LET priceAbove30Week == Val(close) >= Val(sma30Week)
        rising == Val(prevSma30Week) # 0 /\ ((Val(sma30Week) > Val(prevSma30Week)) = (Val(prevSma30Week) > 0)) /\ Val(sma30Week) # Val(prevSma30Week)
        falling == Val(prevSma30Week) # 0 /\ ((Val(sma30Week) < Val(prevSma30Week)) = (Val(prevSma30Week) > 0)) /\ Val(sma30Week) # Val(prevSma30Week)
    IN IF priceAbove30Week /\ rising THEN Txt("Markup")
       ELSE IF ~priceAbove30Week /\ falling THEN Txt("Markdown")
       ELSE IF priceAbove30Week THEN Txt("Accumulation")
       ELSE Txt("Distribution")

\* slopePct is kept as the quotient num / den of integers (0 / 1 when the
\* previous average is 0); 0.05 is 1 / 20
classifyWeinsteinStage(close, sma30Week, prevSma30Week) ==
  IF IsNull(close) \/ IsNull(sma30Week) \/ IsNull(prevSma30Week) THEN Null
  ELSE
    LET num == IF Val(prevSma30Week) # 0
               THEN 100 * (Val(sma30Week) - Val(prevSma30Week)) ELSE 0
        den == IF Val(prevSma30Week) # 0 THEN Val(prevSma30Week) ELSE 1
        priceAbove30Week == Val(close) >= Val(sma30Week)
        rising == IF den > 0 THEN 20 * num > den ELSE 20 * num < den
        falling == IF den > 0 THEN 20 * num < 0 - den ELSE 20 * num > 0 - den
    IN IF priceAbove30Week /\ rising THEN Txt("Markup")
       ELSE IF ~priceAbove30Week /\ falling THEN Txt("Markdown")
       ELSE IF priceAbove30Week THEN Txt("Accumulation")
       ELSE Txt("Distribution")

classifyStageFromEmaProxy(close, ema50, ema200) ==
  IF IsNull(close) \/ IsNull(ema50) \/ IsNull(ema200) THEN Null
  ELSE IF Val(close) >= Val(ema200) /\ Val(ema50) >= Val(ema200) THEN Txt("Markup")
  ELSE IF Val(close) < Val(ema200) /\ Val(ema50) < Val(ema200) THEN Txt("Markdown")
  ELSE IF Val(close) >= Val(ema200) THEN Txt("Accumulation")
  ELSE Txt("Distribution")

\* the '+'-joined attribution: parts of both, without repeats
mergeTechnicalSource(existingSource, candidateSource) ==
  Dedupe(existingSource \o candidateSource)

\* a slip in mergeTechnicalSnapshots: the candidate's values are taken first
mergeTechnicalSnapshotsCandidateFirst(baseSnapshot, candidateSnapshot, priceHint) ==
  IF IsNullSnapshot(baseSnapshot) /\ IsNullSnapshot(candidateSnapshot) THEN NullSnapshot
  ELSE
    [ema50 |-> firstFinite(<<candidateSnapshot.ema50, baseSnapshot.ema50>>),
     ema200 |-> firstFinite(<<candidateSnapshot.ema200, baseSnapshot.ema200>>),
     thirtyWeekSma |-> firstFinite(<<candidateSnapshot.thirtyWeekSma,
                                     baseSnapshot.thirtyWeekSma>>),
     marketCycleStage |-> IF candidateSnapshot.marketCycleStage # Null
                          THEN candidateSnapshot.marketCycleStage
                          ELSE baseSnapshot.marketCycleStage,
     source |-> mergeTechnicalSource(baseSnapshot.source, candidateSnapshot.source)]

mergeTechnicalSnapshots(baseSnapshot, candidateSnapshot, priceHint) ==
  IF IsNullSnapshot(baseSnapshot) /\ IsNullSnapshot(candidateSnapshot) THEN NullSnapshot
  ELSE
    LET close == firstFinite(<<priceHint>>)
        ema50 == firstFinite(<<baseSnapshot.ema50, candidateSnapshot.ema50>>)
        ema200 == firstFinite(<<baseSnapshot.ema200, candidateSnapshot.ema200>>)
        thirtyWeekSma == firstFinite(<<baseSnapshot.thirtyWeekSma,
                                       candidateSnapshot.thirtyWeekSma>>)
        named == IF baseSnapshot.marketCycleStage # Null THEN baseSnapshot.marketCycleStage
                 ELSE candidateSnapshot.marketCycleStage
        bySma == IF named = Null /\ ~IsNull(close) /\ ~IsNull(thirtyWeekSma)
                 THEN (IF Val(close) >= Val(thirtyWeekSma) THEN Txt("Markup")
                       ELSE Txt("Markdown"))
                 ELSE named
        marketCycleStage == IF bySma = Null THEN classifyStageFromEmaProxy(close, ema50, ema200)
                            ELSE bySma
        source == mergeTechnicalSource(baseSnapshot.source, candidateSnapshot.source)
    IN IF IsNull(ema50) /\ IsNull(ema200) /\ IsNull(thirtyWeekSma)
          /\ marketCycleStage = Null
       THEN NullSnapshot
       ELSE [ema50 |-> ema50, ema200 |-> ema200, thirtyWeekSma |-> thirtyWeekSma,
             marketCycleStage |-> marketCycleStage,
             source |-> IF source = <<>> THEN <<"unknown-tech">> ELSE source]

hasCompleteEmaSnapshot(snapshot) ==
  ~IsNullSnapshot(snapshot) /\ ~IsNull(snapshot.ema50) /\ ~IsNull(snapshot.ema200)

TECHNICAL_CACHE_TTL_MS == 1800000
TECHNICAL_NULL_CACHE_TTL_MS == 120000

\* a slip in isTechnicalFresh: every entry kept for the short TTL
isTechnicalFreshShortTtl(cache, key, now) ==
  /\ key \in DOMAIN cache
  /\ (now - cache[key].fetchedAt) <= TECHNICAL_NULL_CACHE_TTL_MS

\* a slip in isTechnicalFresh: every entry kept for the long TTL
isTechnicalFreshLongTtl(cache, key, now) ==
  /\ key \in DOMAIN cache
  /\ (now - cache[key].fetchedAt) <= TECHNICAL_CACHE_TTL_MS

isTechnicalFresh(cache, key, now) ==
  /\ key \in DOMAIN cache
  /\ LET ttl == IF ~IsNullSnapshot(cache[key].value) THEN TECHNICAL_CACHE_TTL_MS
                ELSE TECHNICAL_NULL_CACHE_TTL_MS
     IN (now - cache[key].fetchedAt) <= ttl

\* the sources getTechnicalSnapshot walks, in order
TechSources == <<"nse-history", "bse-history", "symbol-alias", "yahoo-tech",
                 "screener-tech", "twelvedata-tech", "alphavantage-tech">>

\* sources whose failure getTechnicalSnapshot catches itself; the last two
\* catch inside the fetcher and hand back null
GuardedTechSources == {"nse-history", "bse-history", "symbol-alias", "yahoo-tech",
                       "screener-tech"}

EndsWith(symbol, suffix) == Len(symbol) >= 2 /\ symbol[Len(symbol)] = suffix

\* whether stage i of the cascade applies to the symbol at all
TechSourceApplies(i, normalized) ==
  CASE TechSources[i] = "nse-history" -> EndsWith(normalized, "NS")
    [] TechSources[i] = "bse-history" -> EndsWith(normalized, "BO")
    [] OTHER -> TRUE

\* whether the fetcher of stage i sends a request (the keyed vendors return
\* null at once without a key)
TechSourceQueries(i, cfg) ==
  CASE TechSources[i] = "twelvedata-tech" -> cfg.twelveDataApiKey
    [] TechSources[i] = "alphavantage-tech" -> cfg.alphaVantageApiKey
    [] OTHER -> TRUE

TechKinds == {"none", "throw", "complete", "partial"}

\* what a source's fetcher resolves to
TechCandidate(kind, source) ==
  CASE kind = "complete" ->
         [ema50 |-> Num(2450), ema200 |-> Num(2300), thirtyWeekSma |-> Num(2350),
          marketCycleStage |-> Txt("Markup"), source |-> <<source>>]
    [] kind = "partial" ->
         [ema50 |-> Num(95), ema200 |-> Null, thirtyWeekSma |-> Null,
          marketCycleStage |-> Null, source |-> <<source>>]
    [] kind = "partial200" ->
         [ema50 |-> Null, ema200 |-> Num(90), thirtyWeekSma |-> Null,
          marketCycleStage |-> Null, source |-> <<source>>]
    [] OTHER -> NullSnapshot

\* ------------------------------------------------------------- state

VARIABLES
  env,             \* what the callers, providers and sources may do (fixed)
  config,          \* provider order and API keys in force (fixed per behaviour)
  active,          \* the callers that issue getQuotes calls
  clock,           \* Date.now()
  ticks,           \* how many times the clock has advanced
  started,         \* number of getQuotes calls started
  quoteCache,      \* Map key -> [value, fetchedAt]
  technicalCache,  \* Map symbol -> [value, fetchedAt]
  call,            \* per caller: the getQuotes call in progress, or its outcome
  prev,            \* the last getQuotes call that returned: its symbols and time
  lastLookup,      \* per symbol, what the last run of the technical cascade
                   \* returned and when
  lastFetch,       \* per cache key, when the last call that sent the symbol
                   \* to the providers returned
  quarterlyFinancialCache,  \* Map "symbol:limit" -> [value, fetchedAt]
  fin,             \* the getQuarterlyFinancials call in progress, or its outcome
  finStarted,      \* number of getQuarterlyFinancials calls started
  lastReturned,    \* per key, the report returned last and when
  adapter,         \* the exchange adapters: their sessions, and the
                   \* fetch...QuoteForSymbol call in progress or its outcome
  probe            \* a function, or another service, run on its own: its
                   \* input, and its result once it has been applied

quoteVars == <<env, config, active, clock, ticks, started, quoteCache, technicalCache,
               call, prev, lastLookup, lastFetch>>
finVars == <<quarterlyFinancialCache, fin, finStarted, lastReturned>>
adapterVars == <<adapter>>
auxVars == <<adapterVars, probe>>
vars == <<quoteVars, finVars, auxVars>>

\* model bounds
MaxCalls == 2
MaxTicks == 2

\* config.marketCacheTtlMs (default)
marketCacheTtlMs == 60000

\* the callers of getQuotes
CallerIds == {1, 2}

\* what the callers may pass to getQuotes
RawA == <<"a">>
RawANs == <<"A", "NS">>
RawNested == <<"A", "NS", "BO", "NS", "ns">>
RawEmpty == <<>>
\* the environment of Spec: requests for one symbol (given twice in two
\* spellings, or with nested exchange suffixes) and a request of one empty
\* string, providers that answer with a usable quote, an
\* unusable one or nothing, technical sources that answer or do not
QuoteEnv ==
  [inputs |-> { <<RawANs, RawA>>, <<RawNested>>, <<RawEmpty>> },
   quoteKinds |-> {"bare", "zero", "empty"},
   techKinds |-> {"none", "throw", "complete"},
   maxCalls |-> MaxCalls,
   clockSteps |-> {marketCacheTtlMs},
   schedule |-> <<>>,
   finInputs |-> {}, finOptions |-> {}, pageKinds |-> {}]

\* the deployments considered: MARKET_DATA_PROVIDER_ORDER=twelvedata and no
\* vendor key, which getEffectiveProviderOrder turns into bseindia,
\* twelvedata (skipped for its missing key), screener
Configs ==
  { [marketDataProviderOrder |-> <<"twelvedata">>,
     twelveDataApiKey |-> FALSE, alphaVantageApiKey |-> FALSE] }

ProviderOrder(cfg) == getEffectiveProviderOrder(cfg.marketDataProviderOrder)

\* isFresh(cached) && cached.value
isFresh(cache, key, now) ==
  /\ key \in DOMAIN cache
  /\ (now - cache[key].fetchedAt) <= marketCacheTtlMs

EmptySt == [resultMap |-> EmptyMap, resultOrder |-> <<>>, pending |-> {},
            attemptsBySymbol |-> EmptyMap, consumed |-> {}, unusable |-> {}]

IdleCall == [pc |-> "idle", symbols |-> <<>>, resolvedMap |-> EmptyMap,
             missing |-> <<>>, st |-> EmptySt, idx |-> 0,
             baseQuotes |-> <<>>, enriched |-> <<>>,
             techStage |-> 0, snapshot |-> NullSnapshot,
             result |-> <<>>, providerCalls |-> 0, repeat |-> FALSE,
             threw |-> FALSE,
             \* bookkeeping for the properties: what the cache held for each
             \* symbol when the call began, the last first-pass answer, and the
             \* attempts recorded for the symbols that had to be fetched
             startCache |-> EmptyMap, lastResp |-> EmptyMap, lastProvider |-> "",
             outcomes |-> EmptyMap,
             \* the getTechnicalSnapshot calls made so far, and the quote
             \* providers that were called
             lookups |-> <<>>, called |-> {},
             \* for the symbols served from the quote cache, how long before
             \* the call a call that fetched them had returned
             cachedAges |-> {}]

\* Array.from(pending): the symbols still pending, in insertion order
PendingTargets(cl) == FilterIn(cl.missing, cl.st.pending)

\* The synchronous stretch of fetchQuotesFromProviders from the head of a loop
\* iteration to the next awaited provider call, or to its return.
RECURSIVE RunEnrichLoop(_, _)
RunEnrichLoop(cl, cfg) ==
  LET order == ProviderOrder(cfg)
  IN IF cl.idx > Len(order) \/ EnrichTargets(cl.st) = <<>>
       THEN [cl EXCEPT !.pc = "store", !.idx = 0]
     ELSE IF getProviderSkipReason(order[cl.idx], cfg) # ""
       THEN RunEnrichLoop([cl EXCEPT !.idx = @ + 1], cfg)
     ELSE [cl EXCEPT !.pc = "enrich"]

RECURSIVE RunResolveLoop(_, _)
RunResolveLoop(cl, cfg) ==
  LET order == ProviderOrder(cfg)
  IN IF cl.idx > Len(order) \/ cl.st.pending = {}
       THEN RunEnrichLoop([cl EXCEPT !.idx = 1], cfg)
     ELSE IF getProviderSkipReason(order[cl.idx], cfg) # ""
       THEN RunResolveLoop(
              [cl EXCEPT
                 !.st = MarkAll(PendingTargets(cl),
                                <<order[cl.idx], "skip",
                                  getProviderSkipReason(order[cl.idx], cfg)>>, @),
                 !.idx = @ + 1], cfg)
     ELSE [cl EXCEPT !.pc = "resolve"]

\* the catch block of the first pass: an error entry for every target, then on
\* to the next provider
AfterProviderErrorRethrow(cl, provider, targets) ==
  [cl EXCEPT !.pc = "done", !.threw = TRUE]

AfterProviderErrorDropsPending(cl, provider, targets) ==
  [cl EXCEPT !.st = [MarkAll(targets, <<provider, "error">>, @) EXCEPT !.pending = {}],
             !.idx = @ + 1]

AfterProviderError(cl, provider, targets) ==
  [cl EXCEPT !.st = MarkAll(targets, <<provider, "error">>, @), !.idx = @ + 1]

\* the first pass after a provider answered
AfterProviderQuotes(cl, provider, targets, providerQuotes) ==
  LET fresh == [cl.st EXCEPT !.consumed = {}, !.unusable = {}]
      done == MarkMisses(targets, provider, ResolveQuotes(providerQuotes, provider, fresh))
  IN [cl EXCEPT !.st = [done EXCEPT !.consumed = {}, !.unusable = {}], !.idx = @ + 1]

\* enrichQuotesWithTechnicals, the merge of a snapshot into one quote
ApplyTechnical(quote, technical) ==
  IF IsNullSnapshot(technical) THEN quote
  ELSE
    LET ema50 == IF ~isMissingValue(technical.ema50) THEN technical.ema50 ELSE quote.ema50
        ema200 == IF ~isMissingValue(technical.ema200) THEN technical.ema200
                  ELSE quote.ema200
        thirtyWeekSma == IF ~isMissingValue(technical.thirtyWeekSma)
                         THEN technical.thirtyWeekSma ELSE quote.thirtyWeekSma
        stage0 == IF ~isMissingValue(technical.marketCycleStage)
                  THEN technical.marketCycleStage ELSE quote.marketCycleStage
        stage1 == IF isMissingValue(stage0)
                  THEN classifyStageFromEmaProxy(quote.regularMarketPrice, ema50, ema200)
                  ELSE stage0
        stage2 == IF isMissingValue(stage1) /\ ~IsNull(quote.regularMarketPrice)
                     /\ ~IsNull(thirtyWeekSma)
                  THEN (IF Val(quote.regularMarketPrice) >= Val(thirtyWeekSma)
                        THEN Txt("Markup") ELSE Txt("Markdown"))
                  ELSE stage1
    IN [quote EXCEPT
          !.ema50 = ema50, !.ema200 = ema200, !.thirtyWeekSma = thirtyWeekSma,
          !.marketCycleStage = stage2,
          !.providerTrace = SliceLast(Append(@, <<"technicals", technical.source>>),
                                      TRACE_LIMIT)]

\* enrichQuotesWithTechnicals: a quote that is passed through untouched
SkipsTechnicals(quote) ==
  \/ ~isUsableQuote(quote)
  \/ (~isMissingValue(quote.ema50) /\ ~isMissingValue(quote.ema200)
        /\ ~isMissingValue(quote.marketCycleStage))

\* getTechnicalSnapshot from the head of a cascade stage to the next awaited
\* source, or to the end of the cascade ("techwrite")
RECURSIVE RunCascade(_, _, _, _)
RunCascade(cl, cfg, normalized, priceHint) ==
  IF cl.techStage > Len(TechSources) \/ hasCompleteEmaSnapshot(cl.snapshot)
    THEN [cl EXCEPT !.pc = "techwrite"]
  ELSE IF ~TechSourceApplies(cl.techStage, normalized)
    THEN RunCascade([cl EXCEPT !.techStage = @ + 1], cfg, normalized, priceHint)
  ELSE IF ~TechSourceQueries(cl.techStage, cfg)
    THEN RunCascade([cl EXCEPT
                       !.snapshot = mergeTechnicalSnapshots(@, NullSnapshot, priceHint),
                       !.techStage = @ + 1], cfg, normalized, priceHint)
  ELSE [cl EXCEPT !.pc = "tech"]

\* bookkeeping for the properties: one getTechnicalSnapshot call, with what
\* the last cascade run for the symbol had returned (prior), whether the call
\* was answered from the cache, the sources it queried, and its result
TechLookup(normalized, now, served, snapshot) ==
  [symbol |-> normalized, at |-> now,
   prior |-> IF normalized \in DOMAIN lastLookup
             THEN [known |-> TRUE, value |-> lastLookup[normalized].value,
                   at |-> lastLookup[normalized].at]
             ELSE [known |-> FALSE, value |-> NullSnapshot, at |-> 0],
   served |-> served, queried |-> <<>>, done |-> served, value |-> snapshot]

\* enrichQuotesWithTechnicals from the head of a loop iteration to the next
\* awaited source, or to its return ("finish")
RECURSIVE RunTechLoop(_, _, _, _)
RunTechLoop(cl, cfg, tcache, now) ==
  LET i == Len(cl.enriched) + 1
  IN IF i > Len(cl.baseQuotes) THEN [cl EXCEPT !.pc = "finish"]
     ELSE
       LET quote == cl.baseQuotes[i]
           normalized == normalizeIndianSymbol(quote.symbol)
       IN IF SkipsTechnicals(quote)
            THEN RunTechLoop([cl EXCEPT !.enriched = Append(@, quote)], cfg, tcache, now)
          ELSE IF isTechnicalFresh(tcache, normalized, now)
            THEN RunTechLoop(
                   [cl EXCEPT
                      !.enriched = Append(@, ApplyTechnical(quote, tcache[normalized].value)),
                      !.lookups = Append(@, TechLookup(normalized, now, TRUE,
                                                       tcache[normalized].value))],
                   cfg, tcache, now)
          ELSE RunCascade([cl EXCEPT
                             !.techStage = 1, !.snapshot = NullSnapshot,
                             !.lookups = Append(@, TechLookup(normalized, now, FALSE,
                                                              NullSnapshot))],
                          cfg, normalized, quote.regularMarketPrice)

\* getQuotes, the loop over `missing` after the providers were tried: the
\* fetched quote, or the degraded one built from whatever the cache holds
RECURSIVE StoreLoop(_, _, _, _, _)
StoreLoop(missing, st, resolvedMap, cache, now) ==
  IF missing = <<>> THEN [resolvedMap |-> resolvedMap, cache |-> cache]
  ELSE
    LET symbol == Head(missing)
        key == cacheKey(symbol)
        stale == IF key \in DOMAIN cache THEN cache[key].value ELSE NullQuote
        attempts == IF symbol \in DOMAIN st.attemptsBySymbol
                    THEN st.attemptsBySymbol[symbol] ELSE <<>>
        quote == IF symbol \in DOMAIN st.resultMap THEN st.resultMap[symbol]
                 ELSE createUnavailableQuote(symbol, "all providers failed", stale, attempts)
    IN StoreLoop(Tail(missing), st, MapSet(resolvedMap, symbol, quote),
                 MapSet(cache, key, [value |-> quote, fetchedAt |-> now]), now)

\* getQuotes, the closing loop: every returned quote is written to the cache
RECURSIVE FinalWrites(_, _, _)
FinalWrites(quotes, cache, now) ==
  IF quotes = <<>> THEN cache
  ELSE FinalWrites(Tail(quotes),
                   MapSet(cache, cacheKey(Head(quotes).symbol),
                          [value |-> Head(quotes), fetchedAt |-> now]),
                   now)

BaseQuotes(symbols, resolvedMap) ==
  [i \in 1..Len(symbols) |->
     IF symbols[i] \in DOMAIN resolvedMap THEN resolvedMap[symbols[i]]
     ELSE createUnavailableQuote(symbols[i], "not resolved", NullQuote, <<>>)]

\* ------------------------------------------------ quarterly financials

QUARTERLY_FINANCIAL_CACHE_TTL_MS == 21600000
QUARTERLY_FINANCIAL_UNAVAILABLE_CACHE_TTL_MS == 0

NoReport == [symbol |-> <<>>]
IsNoReport(report) == report.symbol = <<>>

\* Math.min(Math.max(Number(options.limit) || 6, 1), 8)
ClampLimit(limit) ==
  LET n == IF IsNull(limit) \/ Val(limit) = 0 THEN 6 ELSE Val(limit)
  IN IF n < 1 THEN 1 ELSE IF n > 8 THEN 8 ELSE n

\* a slip in isQuarterlyFinancialFresh: one TTL for every entry
isQuarterlyFinancialFreshAnyStatus(cache, key, now) ==
  /\ key \in DOMAIN cache
  /\ (now - cache[key].fetchedAt) <= QUARTERLY_FINANCIAL_CACHE_TTL_MS

\* a slip in isQuarterlyFinancialFresh: an entry exactly one TTL old is stale
isQuarterlyFinancialFreshStrict(cache, key, now) ==
  /\ key \in DOMAIN cache
  /\ cache[key].value.dataStatus = "available"
  /\ (now - cache[key].fetchedAt) < QUARTERLY_FINANCIAL_CACHE_TTL_MS

isQuarterlyFinancialFresh(cache, key, now) ==
  /\ key \in DOMAIN cache
  /\ LET value == cache[key].value
         hasRows == value.rows # <<>>
         isAvailable == hasRows \/ value.dataStatus = "available"
         ttl == IF isAvailable THEN QUARTERLY_FINANCIAL_CACHE_TTL_MS
                ELSE QUARTERLY_FINANCIAL_UNAVAILABLE_CACHE_TTL_MS
     IN ttl > 0 /\ (now - cache[key].fetchedAt) <= ttl

\* /^[A-Z][A-Z0-9\-_.]{1,24}$/ on a base: a leading letter and two characters
\* at least
SingleLetterSegments == {"A"}
LooksLikeTicker(base) ==
  /\ base # <<>>
  /\ base[1] \notin NumericSegments \cup ForeignSegments \cup {ScreenerUrlSegment}
  /\ \A i \in 1..Len(base) : base[i] \notin ForeignSegments
  /\ (Len(base) >= 2 \/ base[1] \notin SingleLetterSegments)

\* findNseAliasForBseSymbol against the symbol master in force: the one BSE
\* code it lists under a name that an NSE symbol carries too
findNseAliasForBseSymbol(symbol) ==
  IF symbol = <<"500325", "BO">> THEN <<"RELIANCE", "NS">> ELSE <<>>

buildTechnicalAliasCandidates(symbol) ==
  LET normalized == normalizeIndianSymbol(symbol)
      base == stripExchangeSuffix(normalized)
      both == IF LooksLikeTicker(base) /\ ~IsNumericCode(base)
              THEN <<Append(base, "NS"), Append(base, "BO")>> ELSE <<>>
      alias == IF EndsWith(normalized, "BO") /\ findNseAliasForBseSymbol(normalized) # <<>>
               THEN <<findNseAliasForBseSymbol(normalized)>> ELSE <<>>
      candidates == Dedupe(<<normalized>> \o both \o alias)
      mapped == [i \in 1..Len(candidates) |-> normalizeIndianSymbol(candidates[i])]
  IN FilterIn(mapped, SeqToSet(mapped) \ {<<>>})

buildQuarterlyFinancialSymbolCandidates(symbol) ==
  LET normalized == normalizeIndianSymbol(symbol)
      candidates == Dedupe(<<normalized>> \o buildTechnicalAliasCandidates(normalized))
      mapped == [i \in 1..Len(candidates) |-> normalizeIndianSymbol(candidates[i])]
  IN FilterIn(mapped, SeqToSet(mapped) \ {<<>>})

\* toScreenerUrlsForSymbol(symbol).length > 0
HasScreenerUrls(symbol) ==
  LET normalized == normalizeIndianSymbol(symbol)
      base == stripExchangeSuffix(normalized)
  IN \/ (EndsWith(normalized, "BO") /\ IsNumericCode(base))
     \/ LooksLikeTicker(base)

\* what one company page turns out to be
PageKinds == {"throw", "empty", "notable", "rows"}

\* the quarterly table of the company page that carries one: its header
\* cells, and per body row the normalized label and the cells after it
\* (amounts in hundredths); the net profit row is short of two cells, one row
\* has no label and one only its label
PageHeader == <<"", "Mar24", "Jun24", "Sep24", "TTM">>
PageTableRows ==
  << [key |-> "sales", cells |-> <<Num(10000), Num(11000), Num(12100), Num(33100)>>],
     [key |-> "", cells |-> <<Num(1), Num(1), Num(1), Num(1)>>],
     [key |-> "eps", cells |-> <<>>],
     [key |-> "net profit", cells |-> <<Num(1000), Num(1200)>>] >>

\* the month-and-year, Qn-and-year and day-month-year patterns, on the header
\* texts in use
looksLikeQuarterLabel(label) == label \in {"Mar24", "Jun24", "Sep24"}

\* the columns of the header that hold a quarter, the last safeLimit of them;
\* index counts the header cells from 0
selectQuarterColumns(headerCells, limit) ==
  LET indexed == [i \in 1..Len(headerCells) |-> [index |-> i - 1, label |-> headerCells[i]]]
      quarters == SelectSeq(indexed, LAMBDA item :
                              item.index > 0 /\ looksLikeQuarterLabel(item.label))
      others == SelectSeq(indexed, LAMBDA item :
                            item.index > 0 /\ item.label # "" /\ item.label # "TTM")
  IN SliceLast(IF quarters = <<>> THEN others ELSE quarters, ClampLimit(Num(limit)))

\* the cell of a body row under a column, null where the row has no such cell
CellUnder(row, column) ==
  IF column.index <= Len(row.cells) THEN row.cells[column.index] ELSE Null

parseQuarterlyFinancialTable(headerCells, tableRows, limit) ==
  LET quarterColumns == selectQuarterColumns(headerCells, limit)
      kept == SelectSeq(tableRows, LAMBDA row : row.cells # <<>> /\ row.key # "")
  IN IF tableRows = <<>> \/ quarterColumns = <<>>
       THEN [quarterLabels |-> <<>>, metrics |-> <<>>]
     ELSE [quarterLabels |-> [j \in 1..Len(quarterColumns) |-> quarterColumns[j].label],
           metrics |-> [r \in 1..Len(kept) |->
                          [key |-> kept[r].key,
                           values |-> [j \in 1..Len(quarterColumns) |->
                                         CellUnder(kept[r], quarterColumns[j])]]]]

\* the values of the first metric whose key matches one of the patterns
RECURSIVE findFinancialSeries(_, _)
findFinancialSeries(metrics, patterns) ==
  IF metrics = <<>> THEN <<>>
  ELSE IF Head(metrics).key \in patterns THEN Head(metrics).values
  ELSE findFinancialSeries(Tail(metrics), patterns)

hasAnySeriesValue(values) == \E i \in 1..Len(values) : ~IsNull(values[i])

\* a slip in normalizeSeriesLength: every series padded to the largest limit
normalizeSeriesLengthToMaxLimit(values, targetLength) ==
  [i \in 1..8 |-> IF i <= Len(values) THEN values[i] ELSE Null]

\* amounts are hundredths already, so toFixed(2) leaves them as they are
normalizeSeriesLength(values, targetLength) ==
  [i \in 1..targetLength |-> IF i <= Len(values) THEN values[i] ELSE Null]

\* n / d rounded to the nearest integer, halves away from zero
RoundedQuotient(n, d) ==
  LET an == IF n < 0 THEN -n ELSE n
      ad == IF d < 0 THEN -d ELSE d
      q == (2 * an + ad) \div (2 * ad)
  IN IF (n < 0) = (d < 0) THEN q ELSE -q

\* a slip in computeGrowthSeries: the change is taken relative to the current
\* value
computeGrowthSeriesOverCurrent(values, lag) ==
  [i \in 1..Len(values) |->
     IF i <= lag THEN Null
     ELSE IF IsNull(values[i]) \/ IsNull(values[i - lag]) \/ Val(values[i]) = 0
       THEN Null
     ELSE Num(RoundedQuotient(10000 * (Val(values[i]) - Val(values[i - lag])),
                              Val(values[i])))]

\* growth in hundredths of a percent
computeGrowthSeries(values, lag) ==
  [i \in 1..Len(values) |->
     IF i <= lag THEN Null
     ELSE IF IsNull(values[i]) \/ IsNull(values[i - lag]) \/ Val(values[i - lag]) = 0
       THEN Null
     ELSE Num(RoundedQuotient(10000 * (Val(values[i]) - Val(values[i - lag])),
                              Val(values[i - lag])))]

\* one series of the report: the metric's values at the label count
FinancialSeries(metrics, patterns, valueCount) ==
  normalizeSeriesLength(findFinancialSeries(metrics, patterns), valueCount)

\* a growth series of the report
GrowthSeries(series, lag, valueCount) ==
  normalizeSeriesLength(computeGrowthSeries(series, lag), valueCount)

FinancialRow(key, kind, values) == [key |-> key, kind |-> kind, values |-> values]

\* the rows in report order, before the rows without any value are left out
CandidateRows(salesSeries, operatingProfitSeries, patSeries, opmSeries, epsSeries, valueCount) ==
  << FinancialRow("sales", "number", salesSeries),
     FinancialRow("sales_qoq", "percent", GrowthSeries(salesSeries, 1, valueCount)),
     FinancialRow("sales_yoy", "percent", GrowthSeries(salesSeries, 4, valueCount)),
     FinancialRow("operating_profit", "number", operatingProfitSeries),
     FinancialRow("pat", "number", patSeries),
     FinancialRow("pat_qoq", "percent", GrowthSeries(patSeries, 1, valueCount)),
     FinancialRow("pat_yoy", "percent", GrowthSeries(patSeries, 4, valueCount)),
     FinancialRow("opm", "percent", opmSeries),
     FinancialRow("eps", "number", epsSeries) >>

buildQuarterlyFinancialRows(parsedTable) ==
  LET valueCount == Len(parsedTable.quarterLabels)
      metrics == parsedTable.metrics
  IN IF valueCount = 0 THEN <<>>
     ELSE SelectSeq(
            CandidateRows(
              FinancialSeries(metrics, {"sales", "revenue", "total income"}, valueCount),
              FinancialSeries(metrics, {"operating profit", "op profit", "ebitda"}, valueCount),
              FinancialSeries(metrics, {"net profit", "profit after tax", "pat"}, valueCount),
              FinancialSeries(metrics, {"opm", "operating margin"}, valueCount),
              FinancialSeries(metrics, {"eps"}, valueCount),
              valueCount),
            LAMBDA row : hasAnySeriesValue(row.values))

\* parseQuarterlyFinancialsFromScreenerHtml on a page of the given kind
ParsedPage(kind, limit) ==
  IF kind = "rows"
  THEN [quarterLabels |-> parseQuarterlyFinancialTable(PageHeader, PageTableRows, limit).quarterLabels,
        rows |-> buildQuarterlyFinancialRows(
                   parseQuarterlyFinancialTable(PageHeader, PageTableRows, limit))]
  ELSE [quarterLabels |-> <<>>, rows |-> <<>>]

IdleFin == [pc |-> "idle", symbol |-> <<>>, limit |-> 0, forceRefresh |-> FALSE,
            candidates |-> <<>>, ci |-> 0, providerTrace |-> <<>>,
            lastUnavailable |-> NoReport, updatedAt |-> 0, result |-> NoReport,
            threw |-> FALSE, fromCache |-> FALSE, fetches |-> 0, requests |-> 0,
            afterUnavailable |-> FALSE,
            \* bookkeeping for the properties: whether the report returned
            \* last for the key was an available one, returned (afterAvailable)
            \* or scraped (afterScrape) at most 6 hours before this unforced
            \* call began, that report, and whether the cache held a fresh
            \* entry for the key when the call began
            afterAvailable |-> FALSE, afterScrape |-> FALSE, expected |-> NoReport,
            hadFresh |-> FALSE,
            \* whether this unforced call began less than 6 hours after an
            \* available report was cached for the key and after a forced
            \* refresh for the key had failed since, and that report
            afterFailedRefresh |-> FALSE, good |-> NoReport]

FinKey(symbol, limit) == <<symbol, limit>>

\* what the last call that returned for a key gave back, and when
NoGood == [present |-> FALSE, report |-> NoReport, fetchedAt |-> 0, refreshFailed |-> FALSE]

\* the available report cached last for a key, and whether a forced refresh
\* for the key has failed since
GoodAfter(returned, key, report, fetchedAt, forced) ==
  IF report.dataStatus = "available"
    THEN [present |-> TRUE, report |-> report, fetchedAt |-> fetchedAt,
          refreshFailed |-> FALSE]
  ELSE IF key \in DOMAIN returned
    THEN [returned[key].good EXCEPT !.refreshFailed = @ \/ (forced /\ returned[key].good.present)]
  ELSE NoGood

ReturnedReport(report, at, fetchedAt, good) ==
  [dataStatus |-> report.dataStatus, report |-> report, at |-> at, fetchedAt |-> fetchedAt,
   good |-> good]

\* a slip in the cache test of getQuarterlyFinancials: forceRefresh ignored
ServesCachedIgnoringForce(forceRefresh, cache, key, now) ==
  isQuarterlyFinancialFresh(cache, key, now)

\* !forceRefresh && isQuarterlyFinancialFresh(cached)
ServesCached(forceRefresh, cache, key, now) ==
  ~forceRefresh /\ isQuarterlyFinancialFresh(cache, key, now)

\* getQuarterlyFinancials up to its first await
FinStart(symbolInput, options) ==
  /\ fin.pc \in {"idle", "done"}
  /\ finStarted < env.maxCalls
  /\ finStarted' = finStarted + 1
  /\ LET symbol == normalizeIndianSymbol(symbolInput)
         limit == ClampLimit(options.limit)
         key == FinKey(symbol, limit)
         begun == [IdleFin EXCEPT
                     !.symbol = symbol, !.limit = limit,
                     !.forceRefresh = options.forceRefresh, !.updatedAt = clock,
                     !.afterUnavailable = /\ key \in DOMAIN lastReturned
                                          /\ lastReturned[key].dataStatus = "unavailable",
                     !.afterAvailable =
                        /\ key \in DOMAIN lastReturned
                        /\ lastReturned[key].dataStatus = "available"
                        /\ ~options.forceRefresh
                        /\ clock - lastReturned[key].at <= QUARTERLY_FINANCIAL_CACHE_TTL_MS,
                     !.afterScrape =
                        /\ key \in DOMAIN lastReturned
                        /\ lastReturned[key].dataStatus = "available"
                        /\ ~options.forceRefresh
                        /\ clock - lastReturned[key].fetchedAt
                             <= QUARTERLY_FINANCIAL_CACHE_TTL_MS,
                     !.expected = IF key \in DOMAIN lastReturned
                                  THEN lastReturned[key].report ELSE NoReport,
                     !.hadFresh = isQuarterlyFinancialFresh(quarterlyFinancialCache,
                                                            key, clock),
                     !.afterFailedRefresh =
                        /\ ~options.forceRefresh
                        /\ key \in DOMAIN lastReturned
                        /\ lastReturned[key].good.present
                        /\ lastReturned[key].good.refreshFailed
                        /\ clock - lastReturned[key].good.fetchedAt
                             < QUARTERLY_FINANCIAL_CACHE_TTL_MS,
                     !.good = IF key \in DOMAIN lastReturned
                              THEN lastReturned[key].good.report ELSE NoReport]
     IN IF symbol = <<>>
          THEN /\ fin' = [begun EXCEPT !.pc = "done", !.threw = TRUE]
               /\ UNCHANGED lastReturned
        ELSE IF ServesCached(options.forceRefresh, quarterlyFinancialCache, key, clock)
          THEN /\ fin' = [begun EXCEPT !.pc = "done", !.fromCache = TRUE,
                                       !.result = quarterlyFinancialCache[key].value]
               /\ lastReturned' =
                    MapSet(lastReturned, key,
                           ReturnedReport(quarterlyFinancialCache[key].value, clock,
                                          quarterlyFinancialCache[key].fetchedAt,
                                          GoodAfter(lastReturned, key,
                                                    quarterlyFinancialCache[key].value,
                                                    quarterlyFinancialCache[key].fetchedAt,
                                                    FALSE)))
        ELSE /\ fin' = [begun EXCEPT
                          !.pc = "fetch", !.ci = 1,
                          !.candidates = buildQuarterlyFinancialSymbolCandidates(symbol)]
             /\ UNCHANGED lastReturned
  /\ UNCHANGED <<quoteVars, auxVars, quarterlyFinancialCache>>

\* the catch block of the candidate loop
AfterPageErrorRethrow(f, candidate) ==
  [f EXCEPT !.pc = "done", !.threw = TRUE]

AfterPageError(f, candidate) ==
  [f EXCEPT !.providerTrace = Append(@, <<"screener", "error", candidate>>)]

\* the report built from a page that was fetched
PageReport(f, candidate, parsed) ==
  LET hasRows == parsed.rows # <<>>
  IN [symbol |-> f.symbol,
      source |-> "screener",
      dataStatus |-> IF hasRows THEN "available" ELSE "unavailable",
      updatedAt |-> f.updatedAt,
      quarterLabels |-> parsed.quarterLabels,
      rows |-> parsed.rows,
      providerTrace |-> SliceLast(Append(f.providerTrace, <<"screener", "hit", candidate>>),
                                  TRACE_LIMIT),
      message |-> IF hasRows THEN Null ELSE Txt("table-not-available")]

\* the report of a call that found no page at all
UnavailableReport(f) ==
  [symbol |-> f.symbol,
   source |-> "screener",
   dataStatus |-> "unavailable",
   updatedAt |-> f.updatedAt,
   quarterLabels |-> <<>>,
   rows |-> <<>>,
   providerTrace |-> IF f.providerTrace # <<>> THEN SliceLast(f.providerTrace, TRACE_LIMIT)
                     ELSE << <<"screener", "miss">> >>,
   message |-> Txt("data-currently-unavailable")]

\* one iteration of the candidate loop: the awaited page fetch settles; after
\* the last candidate the unavailable report is written and returned
FinFetch ==
  /\ fin.pc = "fetch"
  /\ LET candidate == fin.candidates[fin.ci]
         kinds == IF HasScreenerUrls(candidate) THEN env.pageKinds ELSE {"empty"}
         asked == [fin EXCEPT !.fetches = @ + 1,
                              !.requests = IF HasScreenerUrls(candidate) THEN @ + 1 ELSE @]
     IN \E kind \in kinds :
          LET parsed == ParsedPage(kind, fin.limit)
              response == PageReport(asked, candidate, parsed)
              after ==
                CASE kind = "throw" -> AfterPageError(asked, candidate)
                  [] kind = "empty" ->
                       [asked EXCEPT !.providerTrace =
                                       Append(@, <<"screener", "miss", candidate>>)]
                  [] kind = "rows" -> [asked EXCEPT !.pc = "done", !.result = response]
                  [] OTHER -> [asked EXCEPT !.lastUnavailable = response]
              key == FinKey(fin.symbol, fin.limit)
          IN IF after.pc = "done"
               THEN /\ fin' = after
                    /\ quarterlyFinancialCache' =
                         IF after.threw THEN quarterlyFinancialCache
                         ELSE MapSet(quarterlyFinancialCache, key,
                                     [value |-> after.result, fetchedAt |-> clock])
                    /\ lastReturned' =
                         IF after.threw THEN lastReturned
                         ELSE MapSet(lastReturned, key,
                                     ReturnedReport(after.result, clock, clock,
                                                    GoodAfter(lastReturned, key, after.result,
                                                              clock, fin.forceRefresh)))
             ELSE IF after.ci < Len(after.candidates)
               THEN /\ fin' = [after EXCEPT !.ci = @ + 1]
                    /\ UNCHANGED <<quarterlyFinancialCache, lastReturned>>
             ELSE LET unavailable == IF ~IsNoReport(after.lastUnavailable)
                                     THEN after.lastUnavailable
                                     ELSE UnavailableReport(after)
                  IN /\ fin' = [after EXCEPT !.pc = "done", !.result = unavailable]
                     /\ quarterlyFinancialCache' =
                          MapSet(quarterlyFinancialCache, key,
                                 [value |-> unavailable, fetchedAt |-> clock])
                     /\ lastReturned' = MapSet(lastReturned, key,
                                               ReturnedReport(unavailable, clock, clock,
                                                              GoodAfter(lastReturned, key,
                                                                        unavailable, clock,
                                                                        fin.forceRefresh)))
  /\ UNCHANGED <<quoteVars, auxVars, finStarted>>

FinIdle ==
  /\ quarterlyFinancialCache = EmptyMap
  /\ fin = IdleFin
  /\ finStarted = 0
  /\ lastReturned = EmptyMap

\* nothing is applied on its own
NoProbe == [fn |-> "", applied |-> FALSE]

\* ---------------------------------------------------- exchange adapters

\* config.nseCookieTtlMs (default), the TTL of both sessions
nseCookieTtlMs == 300000

\* the statuses on which an adapter refreshes its session
SessionStatuses == {401, 403, 429}

\* what a quote request may come back with: a payload with or without a
\* usable price, or a rejection
Responses ==
  {[status |-> 200, usable |-> TRUE], [status |-> 200, usable |-> FALSE]}
  \cup {[status |-> n, usable |-> FALSE] : n \in SessionStatuses \cup {500}}

\* the scrip code of a BSE symbol, empty when it is not a 5 or 6 digit code
toBseScripCode(symbol) ==
  LET normalized == normalizeIndianSymbol(symbol)
  IN IF EndsWith(normalized, "BO") /\ IsNumericCode(stripExchangeSuffix(normalized))
     THEN stripExchangeSuffix(normalized) ELSE <<>>

\* the first lines of fetchNseQuoteForSymbol and fetchBseQuoteForSymbol
AdapterServes(exchange, symbol) ==
  IF exchange = "nse" THEN EndsWith(symbol, "NS") ELSE toBseScripCode(symbol) # <<>>

\* the request an adapter sends first, and the one it sends after a refresh
PrimaryRequest(exchange) == IF exchange = "nse" THEN "quote-equity:trade_info" ELSE "scrip"

IdleAdapterCall ==
  [pc |-> "idle", exchange |-> "", symbol |-> <<>>, forced |-> FALSE,
   requests |-> <<>>, refreshes |-> 0, result |-> "none"]

IdleAdapter ==
  [session |-> [nse |-> [header |-> FALSE, fetchedAt |-> 0],
                bse |-> [header |-> FALSE, fetchedAt |-> 0]],
   started |-> 0,
   call |-> IdleAdapterCall]

\* ensureNseCookie / ensureBseCookie: whether the stored header is returned
SessionFresh(session, forceRefresh, now) ==
  ~forceRefresh /\ session.header /\ (now - session.fetchedAt) < nseCookieTtlMs

\* fetchNseQuoteForSymbol / fetchBseQuoteForSymbol up to the first await that
\* reaches the network
AdapterStart(exchange, symbol) ==
  /\ adapter.call.pc \in {"idle", "done"}
  /\ adapter.started < env.maxCalls
  /\ LET begun == [IdleAdapterCall EXCEPT !.exchange = exchange, !.symbol = symbol]
     IN adapter' =
          [adapter EXCEPT
             !.started = @ + 1,
             !.call = IF ~AdapterServes(exchange, symbol)
                        THEN [begun EXCEPT !.pc = "done", !.result = "null"]
                      ELSE IF SessionFresh(adapter.session[exchange], FALSE, clock)
                        THEN [begun EXCEPT !.pc = "request"]
                      ELSE [begun EXCEPT !.pc = "bootstrap"]]
  /\ UNCHANGED <<quoteVars, finVars, probe>>

\* the bootstrap of a session settles: with cookies, without any (the NSE
\* adapter throws, the BSE adapter goes on with an empty header), or, for the
\* NSE adapter, with a failed page load
AdapterBootstrap ==
  /\ adapter.call.pc = "bootstrap"
  /\ LET k == adapter.call
         next == IF k.forced THEN "retry" ELSE "request"
     IN \E cookies \in BOOLEAN :
          adapter' =
            IF ~cookies /\ k.exchange = "nse"
            THEN [adapter EXCEPT !.call = [k EXCEPT !.pc = "done", !.result = "error"]]
            ELSE [adapter EXCEPT
                    !.session[k.exchange] = [header |-> cookies, fetchedAt |-> clock],
                    !.call = [k EXCEPT !.pc = next]]
  /\ UNCHANGED <<quoteVars, finVars, probe>>

\* the catch block of the adapter after a request was rejected or its payload
\* refused: a session status starts the one refresh, anything else is thrown on
AfterRequestError(k, status) ==
  IF status \in SessionStatuses
  THEN [k EXCEPT !.pc = "bootstrap", !.forced = TRUE, !.refreshes = @ + 1]
  ELSE [k EXCEPT !.pc = "done", !.result = "error"]

\* the first quote request settles
AdapterRequest ==
  /\ adapter.call.pc = "request"
  /\ \E response \in env.responses :
       LET k == [adapter.call EXCEPT
                   !.requests = Append(@, [request |-> PrimaryRequest(adapter.call.exchange),
                                            status |-> response.status])]
       IN adapter' =
            [adapter EXCEPT !.call =
               IF response.status = 200 /\ response.usable
                 THEN [k EXCEPT !.pc = "done", !.result = "quote"]
               ELSE IF response.status = 200 /\ k.exchange = "nse"
                 THEN [k EXCEPT !.pc = "fallback"]
               ELSE AfterRequestError(k, IF response.status = 200 THEN 0
                                         ELSE response.status)]
  /\ UNCHANGED <<quoteVars, finVars, probe>>

\* the NSE adapter's second request, the one without a section, settles
AdapterFallback ==
  /\ adapter.call.pc = "fallback"
  /\ \E response \in env.responses :
       LET k == [adapter.call EXCEPT
                   !.requests = Append(@, [request |-> "quote-equity",
                                            status |-> response.status])]
       IN adapter' =
            [adapter EXCEPT !.call =
               IF response.status = 200 /\ response.usable
                 THEN [k EXCEPT !.pc = "done", !.result = "quote"]
               ELSE AfterRequestError(k, IF response.status = 200 THEN 0
                                         ELSE response.status)]
  /\ UNCHANGED <<quoteVars, finVars, probe>>

\* the request sent with the refreshed session settles: a usable payload is
\* returned, everything else is thrown to the caller
AdapterRetry ==
  /\ adapter.call.pc = "retry"
  /\ \E response \in env.responses :
       LET k == [adapter.call EXCEPT
                   !.requests = Append(@, [request |-> PrimaryRequest(adapter.call.exchange),
                                            status |-> response.status])]
       IN adapter' =
            [adapter EXCEPT !.call =
               IF response.status = 200 /\ response.usable
                 THEN [k EXCEPT !.pc = "done", !.result = "quote"]
               ELSE [k EXCEPT !.pc = "done", !.result = "error"]]
  /\ UNCHANGED <<quoteVars, finVars, probe>>

\* ----------------------------------------------------- getQuotes steps

\* getQuotes up to its first await: asList, the cache partition, and the
\* synchronous head of whatever it awaits first
GetQuotesStart(c, symbolInputs) ==
  /\ c \in active
  /\ call[c].pc \in {"idle", "done"}
  /\ started < env.maxCalls
  /\ started' = started + 1
  /\ LET symbols == asList(symbolInputs)
         cachedSet == {s \in SeqToSet(symbols) : isFresh(quoteCache, cacheKey(s), clock)}
         resolvedMap == [s \in cachedSet |-> quoteCache[cacheKey(s)].value]
         missing == FilterIn(symbols, SeqToSet(symbols) \ cachedSet)
         begun == [IdleCall EXCEPT
                     !.cachedAges =
                        {IF cacheKey(s) \in DOMAIN lastFetch
                         THEN clock - lastFetch[cacheKey(s)] ELSE 0 - 1 : s \in cachedSet},
                     !.symbols = symbols, !.resolvedMap = resolvedMap,
                     !.missing = missing,
                     !.startCache =
                        [s \in SeqToSet(symbols) |->
                           IF cacheKey(s) \in DOMAIN quoteCache
                           THEN [present |-> TRUE,
                                 price |-> quoteCache[cacheKey(s)].value.regularMarketPrice]
                           ELSE [present |-> FALSE, price |-> Null]],
                     !.repeat = /\ prev.returned
                                /\ prev.symbols = symbols
                                /\ clock - prev.at <= marketCacheTtlMs]
     IN call' = [call EXCEPT ![c] =
          IF symbols = <<>> THEN [begun EXCEPT !.pc = "done"]
          ELSE IF missing = <<>>
            THEN RunTechLoop([begun EXCEPT !.baseQuotes = BaseQuotes(symbols, resolvedMap)],
                             config, technicalCache, clock)
          ELSE RunResolveLoop(
                 [begun EXCEPT
                    !.idx = 1,
                    !.st = [EmptySt EXCEPT
                              !.pending = SeqToSet(missing),
                              !.attemptsBySymbol = [s \in SeqToSet(missing) |-> <<>>]]],
                 config)]
  /\ UNCHANGED <<finVars, auxVars, lastLookup, lastFetch, env, config, active, clock, ticks, quoteCache, technicalCache, prev>>

\* first pass: the awaited provider call throws
ResolveFetchFails(c) ==
  /\ call[c].pc = "resolve"
  /\ ProviderOrder(config)[call[c].idx] \in KnownProviders
  /\ LET cl == call[c]
         provider == ProviderOrder(config)[cl.idx]
         counted == [cl EXCEPT !.providerCalls = @ + 1, !.called = @ \cup {provider}]
         after == AfterProviderError(counted, provider, PendingTargets(cl))
     IN call' = [call EXCEPT ![c] =
                   IF after.threw THEN after ELSE RunResolveLoop(after, config)]
  /\ UNCHANGED <<finVars, auxVars, lastLookup, lastFetch, env, config, active, clock, ticks, started, quoteCache, technicalCache, prev>>

\* first pass: the awaited provider call returns its list
ResolveFetchReturns(c) ==
  /\ call[c].pc = "resolve"
  /\ LET cl == call[c]
         provider == ProviderOrder(config)[cl.idx]
         targets == PendingTargets(cl)
     IN \E resp \in [SeqToSet(targets) -> ProviderAnswers(provider, env.quoteKinds)] :
          call' = [call EXCEPT ![c] =
            RunResolveLoop(
              AfterProviderQuotes([cl EXCEPT !.providerCalls = @ + 1,
                                             !.called = @ \cup {provider},
                                             !.lastResp = resp,
                                             !.lastProvider = provider],
                                  provider, targets,
                                  ProviderQuotes(targets, resp, provider)),
              config)]
  /\ UNCHANGED <<finVars, auxVars, lastLookup, lastFetch, env, config, active, clock, ticks, started, quoteCache, technicalCache, prev>>

\* second pass: the awaited provider call throws (caught and logged)
EnrichFetchFails(c) ==
  /\ call[c].pc = "enrich"
  /\ ProviderOrder(config)[call[c].idx] \in KnownProviders
  /\ call' = [call EXCEPT ![c] =
       RunEnrichLoop([call[c] EXCEPT
                        !.providerCalls = @ + 1,
                        !.called = @ \cup {ProviderOrder(config)[call[c].idx]},
                        !.idx = @ + 1], config)]
  /\ UNCHANGED <<finVars, auxVars, lastLookup, lastFetch, env, config, active, clock, ticks, started, quoteCache, technicalCache, prev>>

\* second pass: the awaited provider call returns its list
EnrichFetchReturns(c) ==
  /\ call[c].pc = "enrich"
  /\ LET cl == call[c]
         provider == ProviderOrder(config)[cl.idx]
         targets == EnrichTargets(cl.st)
     IN \E resp \in [SeqToSet(targets) -> ProviderAnswers(provider, env.quoteKinds)] :
          call' = [call EXCEPT ![c] =
            RunEnrichLoop(
              [cl EXCEPT
                 !.providerCalls = @ + 1,
                 !.called = @ \cup {provider},
                 !.st = EnrichQuotes(targets, ProviderQuotes(targets, resp, provider),
                                     provider, @),
                 !.idx = @ + 1],
              config)]
  /\ UNCHANGED <<finVars, auxVars, lastLookup, lastFetch, env, config, active, clock, ticks, started, quoteCache, technicalCache, prev>>

\* getQuotes resumes after fetchQuotesFromProviders: cache writes for the
\* missing symbols, the base list, and the head of enrichQuotesWithTechnicals
StoreFetched(c) ==
  /\ call[c].pc = "store"
  /\ LET cl == call[c]
         stored == StoreLoop(cl.missing, cl.st, cl.resolvedMap, quoteCache, clock)
     IN /\ quoteCache' = stored.cache
        /\ call' = [call EXCEPT ![c] =
             RunTechLoop([cl EXCEPT
                            !.resolvedMap = stored.resolvedMap,
                            !.baseQuotes = BaseQuotes(cl.symbols, stored.resolvedMap),
                            !.lastResp = EmptyMap, !.lastProvider = ""],
                         config, technicalCache, clock)]
  /\ UNCHANGED <<finVars, auxVars, lastLookup, lastFetch, env, config, active, clock, ticks, started, technicalCache, prev>>

\* getTechnicalSnapshot: the awaited source settles; at the end of the cascade
\* the snapshot (or null) is written to the technical cache
TechFetch(c) ==
  /\ call[c].pc = "tech"
  /\ LET cl == call[c]
         quote == cl.baseQuotes[Len(cl.enriched) + 1]
         normalized == normalizeIndianSymbol(quote.symbol)
         source == TechSources[cl.techStage]
         kinds == IF source \in GuardedTechSources THEN env.techKinds
                  ELSE env.techKinds \ {"throw"}
     IN \E kind \in kinds :
          LET merged == IF kind = "throw" THEN cl.snapshot
                        ELSE mergeTechnicalSnapshots(cl.snapshot,
                                                     TechCandidate(kind, source),
                                                     quote.regularMarketPrice)
              next == RunCascade([cl EXCEPT
                                    !.snapshot = merged, !.techStage = @ + 1,
                                    !.lookups[Len(cl.lookups)].queried = Append(@, source)],
                                 config, normalized, quote.regularMarketPrice)
          IN IF next.pc = "techwrite"
             THEN /\ technicalCache' = MapSet(technicalCache, normalized,
                                              [value |-> next.snapshot, fetchedAt |-> clock])
                  /\ lastLookup' = MapSet(lastLookup, normalized,
                                          [value |-> next.snapshot, at |-> clock])
                  /\ call' = [call EXCEPT ![c] =
                       [next EXCEPT !.pc = "techreturn",
                                    !.lookups[Len(cl.lookups)].done = TRUE,
                                    !.lookups[Len(cl.lookups)].value = next.snapshot]]
             ELSE /\ technicalCache' = technicalCache
                  /\ lastLookup' = lastLookup
                  /\ call' = [call EXCEPT ![c] = next]
  /\ UNCHANGED <<finVars, auxVars, lastFetch, env, config, active, clock, ticks, started, quoteCache, prev>>

\* enrichQuotesWithTechnicals resumes with the snapshot and goes on to the
\* next quote
TechReturn(c) ==
  /\ call[c].pc = "techreturn"
  /\ LET cl == call[c]
         quote == cl.baseQuotes[Len(cl.enriched) + 1]
     IN call' = [call EXCEPT ![c] =
          RunTechLoop([cl EXCEPT
                         !.enriched = Append(@, ApplyTechnical(quote, cl.snapshot)),
                         !.techStage = 0, !.snapshot = NullSnapshot],
                      config, technicalCache, clock)]
  /\ UNCHANGED <<finVars, auxVars, lastLookup, lastFetch, env, config, active, clock, ticks, started, quoteCache, technicalCache, prev>>

\* getQuotes resumes after enrichQuotesWithTechnicals: the closing cache
\* writes, and the return
\* the cache keys of the symbols a call sent to the providers and of the
\* quotes it returns for them
FetchedKeys(cl) ==
  {cacheKey(m) : m \in SeqToSet(cl.missing)}
  \cup {cacheKey(cl.enriched[i].symbol) : i \in {j \in 1..Len(cl.enriched) : cl.symbols[j] \in SeqToSet(cl.missing)}}

\* the record of fetches once a call that sent `keys` to the providers returns
WithFetched(fetches, keys, now) ==
  [k \in DOMAIN fetches \cup keys |-> IF k \in keys THEN now ELSE fetches[k]]

Finish(c) ==
  /\ call[c].pc = "finish"
  /\ LET cl == call[c]
     IN /\ quoteCache' = FinalWrites(cl.enriched, quoteCache, clock)
        /\ call' = [call EXCEPT ![c] =
             [IdleCall EXCEPT
                !.pc = "done", !.symbols = cl.symbols, !.result = cl.enriched,
                !.providerCalls = cl.providerCalls, !.repeat = cl.repeat,
                !.startCache = cl.startCache, !.lookups = cl.lookups,
                !.called = cl.called, !.cachedAges = cl.cachedAges,
                !.outcomes = cl.st.attemptsBySymbol]]
        /\ prev' = [returned |-> TRUE, symbols |-> cl.symbols, at |-> clock]
        /\ lastFetch' = WithFetched(lastFetch, FetchedKeys(cl), clock)
  /\ UNCHANGED <<finVars, auxVars, lastLookup, env, config, active, clock, ticks, started, technicalCache>>

\* by how much the clock may move at its k-th advance
ClockSteps(k) ==
  IF k \in DOMAIN env.schedule THEN {env.schedule[k]} ELSE env.clockSteps

\* time passes
Tick ==
  /\ ticks < MaxTicks
  /\ ticks' = ticks + 1
  /\ \E d \in ClockSteps(ticks + 1) : clock' = clock + d
  /\ UNCHANGED <<finVars, auxVars, lastLookup, lastFetch, env, config, active, started, quoteCache,
                 technicalCache, call, prev>>

QuoteInit ==
  /\ env = QuoteEnv
  /\ config \in Configs
  /\ active = {1}
  /\ clock = 0
  /\ ticks = 0
  /\ started = 0
  /\ quoteCache = EmptyMap
  /\ technicalCache = EmptyMap
  /\ call = [c \in CallerIds |-> IdleCall]
  /\ prev = [returned |-> FALSE, symbols |-> <<>>, at |-> 0]
  /\ lastLookup = EmptyMap
  /\ lastFetch = EmptyMap
  /\ FinIdle
  /\ adapter = IdleAdapter
  /\ probe = NoProbe

QuoteNext ==
  \/ \E c \in CallerIds, symbolInputs \in env.inputs : GetQuotesStart(c, symbolInputs)
  \/ \E c \in CallerIds : ResolveFetchFails(c)
  \/ \E c \in CallerIds : ResolveFetchReturns(c)
  \/ \E c \in CallerIds : EnrichFetchFails(c)
  \/ \E c \in CallerIds : EnrichFetchReturns(c)
  \/ \E c \in CallerIds : StoreFetched(c)
  \/ \E c \in CallerIds : TechFetch(c)
  \/ \E c \in CallerIds : TechReturn(c)
  \/ \E c \in CallerIds : Finish(c)
  \/ Tick

Spec == QuoteInit /\ [][QuoteNext]_vars

\* forty names the service has no adapter for
UnlistedCount == 40
UnlistedProviders == [i \in 1..UnlistedCount |-> "p" \o ToString(i)]

\* a deployment whose MARKET_DATA_PROVIDER_ORDER lists the forty names and then
\* yahoo; getEffectiveProviderOrder puts bseindia in front of them
LongOrderConfig ==
  [marketDataProviderOrder |-> UnlistedProviders \o <<"yahoo">>,
   twelveDataApiKey |-> FALSE, alphaVantageApiKey |-> FALSE]

\* the environment of SpecTrace: one NSE symbol, adapters that answer with a
\* quote lacking its technicals, or nothing, or fail, and technical sources
\* that answer or do not
TraceEnv ==
  [inputs |-> { <<RawANs>> },
   quoteKinds |-> {"bare"},
   techKinds |-> {"none", "complete"},
   maxCalls |-> 1,
   clockSteps |-> {marketCacheTtlMs},
   schedule |-> <<>>,
   finInputs |-> {}, finOptions |-> {}, pageKinds |-> {}]

TraceInit ==
  /\ env = TraceEnv
  /\ config = LongOrderConfig
  /\ active = {1}
  /\ clock = 0
  /\ ticks = 0
  /\ started = 0
  /\ quoteCache = EmptyMap
  /\ technicalCache = EmptyMap
  /\ call = [c \in CallerIds |-> IdleCall]
  /\ prev = [returned |-> FALSE, symbols |-> <<>>, at |-> 0]
  /\ lastLookup = EmptyMap
  /\ lastFetch = EmptyMap
  /\ FinIdle
  /\ adapter = IdleAdapter
  /\ probe = NoProbe

SpecTrace == TraceInit /\ [][QuoteNext]_vars

\* the environment of SpecPoll: one NSE symbol polled three times, once per
\* quote TTL, providers that answer with a quote lacking its technicals (or
\* fail), technical sources that answer or do not
PollEnv ==
  [inputs |-> { <<RawANs>> },
   quoteKinds |-> {"bare"},
   techKinds |-> {"none", "complete"},
   maxCalls |-> MaxCalls + 1,
   clockSteps |-> {marketCacheTtlMs},
   schedule |-> <<>>,
   finInputs |-> {}, finOptions |-> {}, pageKinds |-> {}]

PollInit ==
  /\ env = PollEnv
  /\ config \in Configs
  /\ active = {1}
  /\ clock = 0
  /\ ticks = 0
  /\ started = 0
  /\ quoteCache = EmptyMap
  /\ technicalCache = EmptyMap
  /\ call = [c \in CallerIds |-> IdleCall]
  /\ prev = [returned |-> FALSE, symbols |-> <<>>, at |-> 0]
  /\ lastLookup = EmptyMap
  /\ lastFetch = EmptyMap
  /\ FinIdle
  /\ adapter = IdleAdapter
  /\ probe = NoProbe

SpecPoll == PollInit /\ [][QuoteNext]_vars

\* the environment of SpecPair: one call for two NSE symbols, providers that
\* answer each of them with a quote lacking its technicals, an unusable quote
\* or nothing (or fail), technical sources that answer or do not
RawBNs == <<"B", "NS">>
PairEnv ==
  [inputs |-> { <<RawANs, RawBNs>> },
   quoteKinds |-> {"bare", "zero"},
   techKinds |-> {"none", "complete"},
   maxCalls |-> 1,
   clockSteps |-> {marketCacheTtlMs},
   schedule |-> <<>>,
   finInputs |-> {}, finOptions |-> {}, pageKinds |-> {}]

PairInit ==
  /\ env = PairEnv
  /\ config \in Configs
  /\ active = {1}
  /\ clock = 0
  /\ ticks = 0
  /\ started = 0
  /\ quoteCache = EmptyMap
  /\ technicalCache = EmptyMap
  /\ call = [c \in CallerIds |-> IdleCall]
  /\ prev = [returned |-> FALSE, symbols |-> <<>>, at |-> 0]
  /\ lastLookup = EmptyMap
  /\ lastFetch = EmptyMap
  /\ FinIdle
  /\ adapter = IdleAdapter
  /\ probe = NoProbe

SpecPair == PairInit /\ [][QuoteNext]_vars

\* the environment of SpecTech: one NSE symbol asked for again and again,
\* providers that answer with a quote lacking its technicals (or fail), and a
\* clock that reads 0, then 2 minutes, then 30 minutes, and moves on by 2
\* minutes at a time
TechEnv ==
  [inputs |-> { <<RawANs>> },
   quoteKinds |-> {"bare"},
   techKinds |-> {"none", "complete", "partial"},
   maxCalls |-> MaxCalls,
   clockSteps |-> {TECHNICAL_NULL_CACHE_TTL_MS},
   schedule |-> <<TECHNICAL_NULL_CACHE_TTL_MS,
                  TECHNICAL_CACHE_TTL_MS - TECHNICAL_NULL_CACHE_TTL_MS>>,
   finInputs |-> {}, finOptions |-> {}, pageKinds |-> {}]

TechInit ==
  /\ env = TechEnv
  /\ config \in Configs
  /\ active = {1}
  /\ clock = 0
  /\ ticks = 0
  /\ started = 0
  /\ quoteCache = EmptyMap
  /\ technicalCache = EmptyMap
  /\ call = [c \in CallerIds |-> IdleCall]
  /\ prev = [returned |-> FALSE, symbols |-> <<>>, at |-> 0]
  /\ lastLookup = EmptyMap
  /\ lastFetch = EmptyMap
  /\ FinIdle
  /\ adapter = IdleAdapter
  /\ probe = NoProbe

SpecTech == TechInit /\ [][QuoteNext]_vars

\* the environment of SpecFin: a ticker with two candidates, a BSE code with
\* an alias, a single letter without a page, an input that is no symbol
FinEnv ==
  [inputs |-> {}, quoteKinds |-> {}, techKinds |-> {},
   maxCalls |-> MaxCalls + 1,
   clockSteps |-> {QUARTERLY_FINANCIAL_CACHE_TTL_MS},
   schedule |-> <<>>,
   finInputs |-> { <<"TCS">>, <<"a">>, <<>> },
   finOptions |-> { [limit |-> Num(2), forceRefresh |-> FALSE],
                    [limit |-> Num(2), forceRefresh |-> TRUE] },
   pageKinds |-> PageKinds]

FinInit ==
  /\ env = FinEnv
  /\ config \in Configs
  /\ active = {}
  /\ clock = 0
  /\ ticks = 0
  /\ started = 0
  /\ quoteCache = EmptyMap
  /\ technicalCache = EmptyMap
  /\ call = [c \in CallerIds |-> IdleCall]
  /\ prev = [returned |-> FALSE, symbols |-> <<>>, at |-> 0]
  /\ lastLookup = EmptyMap
  /\ lastFetch = EmptyMap
  /\ FinIdle
  /\ adapter = IdleAdapter
  /\ probe = NoProbe

FinNext ==
  \/ \E symbolInput \in env.finInputs, options \in env.finOptions :
       FinStart(symbolInput, options)
  \/ FinFetch
  \/ Tick

SpecFin == FinInit /\ [][FinNext]_vars

\* the environment of SpecAdapter: an NSE symbol, a BSE scrip code and a BSE
\* symbol that is no scrip code, offered to either adapter, and a clock that
\* moves by the session TTL
AdapterEnv ==
  [maxCalls |-> MaxCalls,
   clockSteps |-> {nseCookieTtlMs},
   schedule |-> <<>>,
   adapterInputs |-> { <<"A", "NS">>, <<"500325", "BO">>, <<"A", "BO">> },
   responses |-> Responses]

AdapterInit ==
  /\ env = AdapterEnv
  /\ config \in Configs
  /\ active = {}
  /\ clock = 0
  /\ ticks = 0
  /\ started = 0
  /\ quoteCache = EmptyMap
  /\ technicalCache = EmptyMap
  /\ call = [c \in CallerIds |-> IdleCall]
  /\ prev = [returned |-> FALSE, symbols |-> <<>>, at |-> 0]
  /\ lastLookup = EmptyMap
  /\ lastFetch = EmptyMap
  /\ FinIdle
  /\ adapter = IdleAdapter
  /\ probe = NoProbe

AdapterNext ==
  \/ \E exchange \in {"nse", "bse"}, symbol \in env.adapterInputs :
       AdapterStart(exchange, symbol)
  \/ AdapterBootstrap
  \/ AdapterRequest
  \/ AdapterFallback
  \/ AdapterRetry
  \/ Tick

SpecAdapter == AdapterInit /\ [][AdapterNext]_vars

\* the state of the service that the functions applied on their own leave
\* alone
ServiceIdle ==
  /\ config \in Configs
  /\ active = {}
  /\ clock = 0
  /\ ticks = 0
  /\ started = 0
  /\ quoteCache = EmptyMap
  /\ technicalCache = EmptyMap
  /\ call = [c \in CallerIds |-> IdleCall]
  /\ prev = [returned |-> FALSE, symbols |-> <<>>, at |-> 0]
  /\ lastLookup = EmptyMap
  /\ lastFetch = EmptyMap
  /\ FinIdle
  /\ adapter = IdleAdapter

\* the provider names a MARKET_DATA_PROVIDER_ORDER may hold here, the empty
\* entry among them, and how many entries it may have
OrderEntries == {"nseindia", "bseindia", "screener", "yahoo", ""}
MaxOrderLen == 3
ConfiguredOrders == UNION {[1..n -> OrderEntries] : n \in 0..MaxOrderLen}

OrderInit ==
  /\ env = [maxCalls |-> 0, clockSteps |-> {}, schedule |-> <<>>]
  /\ ServiceIdle
  /\ \E configured \in ConfiguredOrders :
       probe = [fn |-> "getEffectiveProviderOrder", applied |-> FALSE,
                configured |-> configured, order |-> <<>>]

\* getEffectiveProviderOrder is applied to the configured order
ApplyProviderOrder ==
  /\ probe.fn = "getEffectiveProviderOrder"
  /\ ~probe.applied
  /\ probe' = [probe EXCEPT !.applied = TRUE,
                            !.order = getEffectiveProviderOrder(probe.configured)]
  /\ UNCHANGED <<quoteVars, finVars, adapterVars>>

SpecOrder == OrderInit /\ [][ApplyProviderOrder]_vars

\* the snapshots mergeTechnicalSnapshots is given: as base, nothing or what an
\* earlier merge returned (finite numbers or null, a stage name or none, not
\* all four missing); as candidate, nothing or what a source's fetcher
\* returned, with other values than the base
SnapshotsOf(e50, e200, sma, stages, source) ==
  {[ema50 |-> a, ema200 |-> b, thirtyWeekSma |-> w, marketCycleStage |-> g, source |-> <<source>>] : a \in {Null, Num(e50)}, b \in {Null, Num(e200)}, w \in {Null, Num(sma)}, g \in stages}

HasTechnicalValue(snapshot) ==
  \/ ~IsNull(snapshot.ema50)
  \/ ~IsNull(snapshot.ema200)
  \/ ~IsNull(snapshot.thirtyWeekSma)
  \/ snapshot.marketCycleStage # Null

BaseSnapshots ==
  {NullSnapshot}
  \cup {b \in SnapshotsOf(240, 230, 235, {Null, Txt("Accumulation"), Txt("Markdown")}, "nse-tech") : HasTechnicalValue(b)}

CandidateSnapshots ==
  {NullSnapshot} \cup SnapshotsOf(250, 260, 255, {Null, Txt("Markup")}, "yahoo-tech")

PriceHints == {Null, Num(245)}

MergeInit ==
  /\ env = [maxCalls |-> 0, clockSteps |-> {}, schedule |-> <<>>]
  /\ ServiceIdle
  /\ \E base \in BaseSnapshots, candidate \in CandidateSnapshots, priceHint \in PriceHints :
       probe = [fn |-> "mergeTechnicalSnapshots", applied |-> FALSE,
                base |-> base, candidate |-> candidate, priceHint |-> priceHint,
                merged |-> NullSnapshot]

\* mergeTechnicalSnapshots is applied to the base and the candidate
ApplyMerge ==
  /\ probe.fn = "mergeTechnicalSnapshots"
  /\ ~probe.applied
  /\ probe' = [probe EXCEPT
                 !.applied = TRUE,
                 !.merged = mergeTechnicalSnapshots(probe.base, probe.candidate,
                                                    probe.priceHint)]
  /\ UNCHANGED <<quoteVars, finVars, adapterVars>>

SpecMerge == MergeInit /\ [][ApplyMerge]_vars

\* the header rows a quarterly table may have: the label cell, then up to
\* MaxColumns cells that name a quarter or the trailing twelve months; and the
\* limits a caller may pass: none (or no number), 0, a negative one, some
\* within 1..8, one above 8
MaxColumns == 4
HeaderTexts == {"Mar24", "Jun24", "Sep24", "TTM"}
HeaderRows == UNION {{<<"">> \o h : h \in [1..n -> HeaderTexts]} : n \in 0..MaxColumns}
LimitOptions == {Null, Num(0), Num(0 - 1), Num(1), Num(2), Num(3), Num(9)}

ColumnsInit ==
  /\ env = [maxCalls |-> 0, clockSteps |-> {}, schedule |-> <<>>]
  /\ ServiceIdle
  /\ \E headerCells \in HeaderRows, limit \in LimitOptions :
       probe = [fn |-> "quarterLabels", applied |-> FALSE,
                headerCells |-> headerCells, limit |-> limit, quarterLabels |-> <<>>]

\* getQuarterlyFinancials clamps options.limit and the page's table is parsed
\* with it
ApplyQuarterLabels ==
  /\ probe.fn = "quarterLabels"
  /\ ~probe.applied
  /\ probe' = [probe EXCEPT
                 !.applied = TRUE,
                 !.quarterLabels =
                    parseQuarterlyFinancialTable(probe.headerCells, PageTableRows,
                                                 ClampLimit(probe.limit)).quarterLabels]
  /\ UNCHANGED <<quoteVars, finVars, adapterVars>>

SpecColumns == ColumnsInit /\ [][ApplyQuarterLabels]_vars

\* the series computeGrowthSeries is given: up to MaxSeriesLen amounts (in
\* hundredths) that may be missing, zero, negative or positive; and the lags
\* in use, 1 for quarter on quarter and 4 for year on year
MaxSeriesLen == 5
SeriesAmounts == {Null, Num(0), Num(0 - 40), Num(32), Num(33)}
SeriesInputs == UNION {[1..n -> SeriesAmounts] : n \in 0..MaxSeriesLen}
GrowthLags == {1, 4}

GrowthInit ==
  /\ env = [maxCalls |-> 0, clockSteps |-> {}, schedule |-> <<>>]
  /\ ServiceIdle
  /\ \E values \in SeriesInputs, lag \in GrowthLags :
       probe = [fn |-> "computeGrowthSeries", applied |-> FALSE,
                values |-> values, lag |-> lag, growth |-> <<>>]

\* computeGrowthSeries is applied to the series
ApplyGrowth ==
  /\ probe.fn = "computeGrowthSeries"
  /\ ~probe.applied
  /\ probe' = [probe EXCEPT !.applied = TRUE,
                            !.growth = computeGrowthSeries(probe.values, probe.lag)]
  /\ UNCHANGED <<quoteVars, finVars, adapterVars>>

SpecGrowth == GrowthInit /\ [][ApplyGrowth]_vars

\* the closes and 30-week averages the stage classifier is given (in
\* hundredths): missing ones, a previous average of 0 and a negative one,
\* slopes of exactly 0.05 and -0.05 percent and slopes beyond them
StageCloses == {Null, Num(90), Num(110), Num(2000), Num(2100)}
StageSmas == {Null, Num(100), Num(1999), Num(2001), Num(2002)}
StagePrevSmas == {Null, Num(0), Num(95), Num(105), Num(2000), Num(0 - 100)}

StageInit ==
  /\ env = [maxCalls |-> 0, clockSteps |-> {}, schedule |-> <<>>]
  /\ ServiceIdle
  /\ \E close \in StageCloses, sma30Week \in StageSmas, prevSma30Week \in StagePrevSmas :
       probe = [fn |-> "classifyWeinsteinStage", applied |-> FALSE,
                close |-> close, sma30Week |-> sma30Week,
                prevSma30Week |-> prevSma30Week, stage |-> Null]

\* classifyWeinsteinStage is applied to the three values
ApplyStage ==
  /\ probe.fn = "classifyWeinsteinStage"
  /\ ~probe.applied
  /\ probe' = [probe EXCEPT
                 !.applied = TRUE,
                 !.stage = classifyWeinsteinStage(probe.close, probe.sma30Week,
                                                  probe.prevSma30Week)]
  /\ UNCHANGED <<quoteVars, finVars, adapterVars>>

SpecStage == StageInit /\ [][ApplyStage]_vars

\* the quotes mergeQuoteMissingFields is given in the enrichment pass: as
\* base a resolved quote of A.NS, as candidate what another provider returned
\* for it (both after normalizeQuoteShape); each optional field and the name
\* may be absent, and the candidate's values differ from the base's
QuotesOf(price, cap, ema, close, stage, name, provider) ==
  {normalizeQuoteShape([RawQuote(RawANs, Num(price), Null, c, Null, m, e, Null, Null, g, <<provider>>) EXCEPT !.shortName = n]) : m \in {Null, Num(cap)}, e \in {Null, Num(ema)}, c \in {Null, Num(close)}, g \in {Null, Txt(stage)}, n \in {Null, Txt(name)}}

BaseQuoteSet == QuotesOf(100, 10, 95, 90, "Markdown", "Acme", "bseindia")
CandidateQuoteSet == QuotesOf(101, 20, 96, 91, "Markup", "Acme Ltd", "screener")

FillInit ==
  /\ env = [maxCalls |-> 0, clockSteps |-> {}, schedule |-> <<>>]
  /\ ServiceIdle
  /\ \E baseQuote \in BaseQuoteSet, candidateQuote \in CandidateQuoteSet :
       probe = [fn |-> "mergeQuoteMissingFields", applied |-> FALSE,
                baseQuote |-> baseQuote, candidateQuote |-> candidateQuote,
                merged |-> NullQuote]

\* mergeQuoteMissingFields is applied as the enrichment pass applies it
ApplyFill ==
  /\ probe.fn = "mergeQuoteMissingFields"
  /\ ~probe.applied
  /\ probe' = [probe EXCEPT
                 !.applied = TRUE,
                 !.merged = mergeQuoteMissingFields(probe.baseQuote, probe.candidateQuote,
                                                    probe.candidateQuote.source[1])]
  /\ UNCHANGED <<quoteVars, finVars, adapterVars>>

SpecFill == FillInit /\ [][ApplyFill]_vars

\* one symbol asked for again and again, the cache entry expired each time
ExpiryEnv ==
  [inputs |-> { <<RawANs>> },
   quoteKinds |-> {"bare"},
   techKinds |-> {"none", "complete"},
   maxCalls |-> MaxCalls + 1,
   clockSteps |-> {marketCacheTtlMs + 1},
   schedule |-> <<>>,
   finInputs |-> {}, finOptions |-> {}, pageKinds |-> {}]

ExpiryInit ==
  /\ env = ExpiryEnv
  /\ config \in Configs
  /\ active = {1}
  /\ clock = 0
  /\ ticks = 0
  /\ started = 0
  /\ quoteCache = EmptyMap
  /\ technicalCache = EmptyMap
  /\ call = [c \in CallerIds |-> IdleCall]
  /\ prev = [returned |-> FALSE, symbols |-> <<>>, at |-> 0]
  /\ lastLookup = EmptyMap
  /\ lastFetch = EmptyMap
  /\ FinIdle
  /\ adapter = IdleAdapter
  /\ probe = NoProbe

SpecExpiry == ExpiryInit /\ [][QuoteNext]_vars

\* two callers whose getQuotes calls for one symbol may overlap at every await
OverlapEnv ==
  [inputs |-> { <<RawANs>> },
   quoteKinds |-> {"bare"},
   techKinds |-> {"complete"},
   maxCalls |-> 2,
   clockSteps |-> {marketCacheTtlMs},
   schedule |-> <<>>,
   finInputs |-> {}, finOptions |-> {}, pageKinds |-> {}]

OverlapInit ==
  /\ env = OverlapEnv
  /\ config \in Configs
  /\ active = CallerIds
  /\ clock = 0
  /\ ticks = 0
  /\ started = 0
  /\ quoteCache = EmptyMap
  /\ technicalCache = EmptyMap
  /\ call = [c \in CallerIds |-> IdleCall]
  /\ prev = [returned |-> FALSE, symbols |-> <<>>, at |-> 0]
  /\ lastLookup = EmptyMap
  /\ lastFetch = EmptyMap
  /\ FinIdle
  /\ adapter = IdleAdapter
  /\ probe = NoProbe

SpecOverlap == OverlapInit /\ [][QuoteNext]_vars

\* the quotes enrichQuotesWithTechnicals is given: quotes of A.NS, usable or
\* without a price, each of whose technical fields may be present; and what
\* getTechnicalSnapshot resolves to for them: nothing or a snapshot with
\* other values
TechnicalQuoteSet ==
  {normalizeQuoteShape(RawQuote(RawANs, p, Null, Null, Null, Num(10), a, b, w, g, <<"bseindia">>)) : p \in {Null, Num(245)}, a \in {Null, Num(95)}, b \in {Null, Num(90)}, w \in {Null, Num(92)}, g \in {Null, Txt("Accumulation")}}

TechnicalInit ==
  /\ env = [maxCalls |-> 0, clockSteps |-> {}, schedule |-> <<>>]
  /\ ServiceIdle
  /\ \E quote \in TechnicalQuoteSet, technical \in CandidateSnapshots :
       probe = [fn |-> "enrichQuotesWithTechnicals", applied |-> FALSE,
                quote |-> quote, technical |-> technical, enriched |-> NullQuote]

\* one iteration of the loop of enrichQuotesWithTechnicals, with what
\* getTechnicalSnapshot resolved to
ApplyTechnicals ==
  /\ probe.fn = "enrichQuotesWithTechnicals"
  /\ ~probe.applied
  /\ probe' = [probe EXCEPT
                 !.applied = TRUE,
                 !.enriched = IF SkipsTechnicals(probe.quote) THEN probe.quote
                              ELSE ApplyTechnical(probe.quote, probe.technical)]
  /\ UNCHANGED <<quoteVars, finVars, adapterVars>>

SpecTechnicals == TechnicalInit /\ [][ApplyTechnicals]_vars

\* One getTechnicalSnapshot call on an empty technical cache, with the alias
\* step taken request by request. `snapshot` is the variable of
\* getTechnicalSnapshot, `mergedSnapshot` and `candidateSnapshot` are those of
\* fetchTechnicalSnapshotFromSymbolAliases, `queried` lists the requests sent.
LookupSymbols == {RawANs, <<"RELIANCE", "NS">>, <<"500325", "BO">>}

\* a daily series gives both averages or none; a scan vendor's quote and the
\* scraped page may carry either one alone
SeriesKinds == {"none", "throw", "complete"}
FieldKinds == {"none", "throw", "complete", "partial", "partial200"}

LookupSourceKinds(source) ==
  CASE source \in {"screener-tech"} -> FieldKinds
    [] source \in GuardedTechSources -> SeriesKinds
    [] OTHER -> SeriesKinds \ {"throw"}

\* getTechnicalSnapshot from the head of stage p.stage to the next request
RECURSIVE LookupAdvance(_, _)
LookupAdvance(p, cfg) ==
  IF p.stage > Len(TechSources) \/ hasCompleteEmaSnapshot(p.snapshot)
    THEN [p EXCEPT !.pc = "done", !.applied = TRUE]
  ELSE IF ~TechSourceApplies(p.stage, p.symbol)
    THEN LookupAdvance([p EXCEPT !.stage = @ + 1], cfg)
  ELSE IF TechSources[p.stage] = "symbol-alias"
    THEN LET aliases == Dedupe(buildTechnicalAliasCandidates(p.symbol))
         IN IF aliases = <<>> THEN LookupAdvance([p EXCEPT !.stage = @ + 1], cfg)
            ELSE [p EXCEPT !.pc = "alias-tradingview", !.aliases = aliases,
                           !.aliasIdx = 1, !.mergedSnapshot = NullSnapshot,
                           !.candidateSnapshot = NullSnapshot]
  ELSE IF ~TechSourceQueries(p.stage, cfg)
    THEN LookupAdvance([p EXCEPT !.stage = @ + 1], cfg)
  ELSE [p EXCEPT !.pc = "source"]

\* fetchTechnicalSnapshotFromSymbolAliases after the requests for one alias:
\* the merge into mergedSnapshot, the break, the next alias or the return into
\* getTechnicalSnapshot
AfterAliasCandidate(p, cfg) ==
  LET merged == IF IsNullSnapshot(p.candidateSnapshot) THEN p.mergedSnapshot
                ELSE mergeTechnicalSnapshots(p.mergedSnapshot, p.candidateSnapshot,
                                             p.priceHint)
      break == ~IsNullSnapshot(p.candidateSnapshot) /\ hasCompleteEmaSnapshot(merged)
  IN IF break \/ p.aliasIdx = Len(p.aliases)
     THEN LookupAdvance([p EXCEPT
                           !.snapshot = mergeTechnicalSnapshots(@, merged, p.priceHint),
                           !.mergedSnapshot = NullSnapshot,
                           !.candidateSnapshot = NullSnapshot,
                           !.aliases = <<>>, !.aliasIdx = 0,
                           !.stage = @ + 1], cfg)
     ELSE [p EXCEPT !.pc = "alias-tradingview", !.mergedSnapshot = merged,
                    !.candidateSnapshot = NullSnapshot, !.aliasIdx = @ + 1]

LookupInit ==
  /\ env = [maxCalls |-> 0, clockSteps |-> {}, schedule |-> <<>>]
  /\ ServiceIdle
  /\ \E symbol \in LookupSymbols, priceHint \in PriceHints :
       probe = LookupAdvance(
                 [fn |-> "getTechnicalSnapshot", applied |-> FALSE, symbol |-> symbol,
                  priceHint |-> priceHint, pc |-> "source", stage |-> 1, snapshot |-> NullSnapshot,
                  aliases |-> <<>>, aliasIdx |-> 0, mergedSnapshot |-> NullSnapshot,
                  candidateSnapshot |-> NullSnapshot, queried |-> <<>>], config)

\* one of the sources getTechnicalSnapshot awaits itself answers
LookupSourceAnswers ==
  /\ probe.fn = "getTechnicalSnapshot"
  /\ probe.pc = "source"
  /\ LET source == TechSources[probe.stage]
     IN \E kind \in LookupSourceKinds(source) :
          probe' = LookupAdvance(
                     [probe EXCEPT
                        !.snapshot = IF kind = "throw" THEN @
                                     ELSE mergeTechnicalSnapshots(@, TechCandidate(kind, source),
                                                                  probe.priceHint),
                        !.queried = Append(@, <<source>>),
                        !.stage = @ + 1], config)
  /\ UNCHANGED <<quoteVars, finVars, adapterVars>>

\* fetchTradingViewQuotes([candidate]) of the alias loop answers
AliasTradingViewAnswers ==
  /\ probe.fn = "getTechnicalSnapshot"
  /\ probe.pc = "alias-tradingview"
  /\ \E kind \in FieldKinds :
       LET tvSnapshot == TechCandidate(kind, "alias-tradingview")
           candidateSnapshot == IF IsNullSnapshot(tvSnapshot) THEN NullSnapshot
                                ELSE mergeTechnicalSnapshots(NullSnapshot, tvSnapshot,
                                                             probe.priceHint)
           asked == [probe EXCEPT
                       !.candidateSnapshot = candidateSnapshot,
                       !.queried = Append(@, <<"alias-tradingview",
                                               probe.aliases[probe.aliasIdx]>>)]
       IN probe' = IF ~hasCompleteEmaSnapshot(candidateSnapshot)
                   THEN [asked EXCEPT !.pc = "alias-yahoo"]
                   ELSE AfterAliasCandidate(asked, config)
  /\ UNCHANGED <<quoteVars, finVars, adapterVars>>

\* fetchYahooCloseSeries(candidate) of the alias loop answers
AliasYahooAnswers ==
  /\ probe.fn = "getTechnicalSnapshot"
  /\ probe.pc = "alias-yahoo"
  /\ \E kind \in SeriesKinds :
       LET snapshot == TechCandidate(kind, "alias-yahoo")
       IN probe' = AfterAliasCandidate(
                     [probe EXCEPT
                        !.candidateSnapshot =
                           IF IsNullSnapshot(snapshot) THEN @
                           ELSE mergeTechnicalSnapshots(@, snapshot, probe.priceHint),
                        !.queried = Append(@, <<"alias-yahoo",
                                                probe.aliases[probe.aliasIdx]>>)],
                     config)
  /\ UNCHANGED <<quoteVars, finVars, adapterVars>>

LookupNext == LookupSourceAnswers \/ AliasTradingViewAnswers \/ AliasYahooAnswers

SpecLookup == LookupInit /\ [][LookupNext]_vars

\* ------------------------------------------------- daily sales snapshot
\* dailySalesService on its own: runPromise, state.running, state.snapshot.run,
\* the refreshDailySalesSnapshot calls and the runs they started, each run
\* with the variables of its closure and its workers.
MIN_CONCURRENCY == 1
MAX_CONCURRENCY == 8
MaxSymbols == 3
SalesCallIds == {1, 2}
ConcurrencyOptions == {0, 2}
FinancialOutcomes == {"available", "unavailable", "throw"}

\* Math.min(Math.max(configured, MIN_CONCURRENCY), MAX_CONCURRENCY)
getConcurrency(configured) ==
  IF configured < MIN_CONCURRENCY THEN MIN_CONCURRENCY
  ELSE IF configured > MAX_CONCURRENCY THEN MAX_CONCURRENCY ELSE configured

NoRunState == [status |-> "idle", totalSymbols |-> 0, processed |-> 0, success |-> 0,
               failed |-> 0]

NoRun == [pc |-> "none", total |-> 0, cursor |-> 0, processed |-> 0, success |-> 0,
          failed |-> 0, workers |-> <<>>, handled |-> <<>>, final |-> NoRunState]

\* a slip in the worker: the cursor is read but not advanced
WorkerTakesNoAdvance(run, w) ==
  LET currentIndex == run.cursor
  IN IF currentIndex >= run.total
     THEN [run EXCEPT !.workers[w] = [pc |-> "returned", index |-> currentIndex]]
     ELSE [run EXCEPT !.cursor = IF w = Len(run.workers) THEN @ + Len(run.workers) ELSE @,
                      !.workers[w] = [pc |-> "fetch", index |-> currentIndex]]

\* the head of the worker loop: currentIndex = cursor; cursor += 1; return
\* past the end, else on to the awaited getQuarterlyFinancials
WorkerTakes(run, w) ==
  LET currentIndex == run.cursor
  IN IF currentIndex >= run.total
     THEN [run EXCEPT !.cursor = @ + 1,
                      !.workers[w] = [pc |-> "returned", index |-> currentIndex]]
     ELSE [run EXCEPT !.cursor = @ + 1,
                      !.workers[w] = [pc |-> "fetch", index |-> currentIndex]]

\* Array.from({ length: workerCount }, () => worker()): each worker runs up to
\* its first await as it is created
RECURSIVE StartWorkers(_, _)
StartWorkers(run, w) ==
  IF w > Len(run.workers) THEN run ELSE StartWorkers(WorkerTakes(run, w), w + 1)

RunCounts(run, status) ==
  [status |-> status, totalSymbols |-> run.total, processed |-> run.processed,
   success |-> run.success, failed |-> run.failed]

SalesInit ==
  /\ env = [maxCalls |-> 0, clockSteps |-> {}, schedule |-> <<>>]
  /\ ServiceIdle
  /\ \E targets \in 0..MaxSymbols, configured \in ConcurrencyOptions, throttled \in BOOLEAN :
       probe = [fn |-> "refreshDailySalesSnapshot", applied |-> FALSE,
                targets |-> targets, concurrency |-> getConcurrency(configured),
                throttled |-> throttled,
                runPromise |-> 0, running |-> FALSE, run |-> NoRunState,
                calls |-> [k \in SalesCallIds |-> [pc |-> "idle", promise |-> 0]],
                runs |-> [k \in SalesCallIds |-> NoRun]]

\* refreshDailySalesSnapshot up to its first await: the run in flight is
\* returned, or getTargetSymbolItems is awaited
RefreshStart(k) ==
  /\ probe.fn = "refreshDailySalesSnapshot"
  /\ probe.calls[k].pc = "idle"
  /\ probe' = IF probe.runPromise # 0
              THEN [probe EXCEPT !.calls[k] = [pc |-> "joined", promise |-> probe.runPromise]]
              ELSE [probe EXCEPT !.calls[k] = [pc |-> "targets", promise |-> 0]]
  /\ UNCHANGED <<quoteVars, finVars, adapterVars>>

\* getTargetSymbolItems resolved: the run is announced in state, runPromise is
\* set and the workers are created
TargetsResolved(k) ==
  /\ probe.fn = "refreshDailySalesSnapshot"
  /\ probe.calls[k].pc = "targets"
  /\ LET total == probe.targets
         workerCount == IF probe.concurrency < total THEN probe.concurrency
                        ELSE IF total > 1 THEN total ELSE 1
         begun == [NoRun EXCEPT
                     !.pc = "workers", !.total = total,
                     !.workers = [w \in 1..workerCount |-> [pc |-> "new", index |-> 0]],
                     !.handled = [i \in 1..total |-> 0]]
     IN probe' = [probe EXCEPT
                    !.running = TRUE,
                    !.run = RunCounts(begun, "running"),
                    !.runs[k] = StartWorkers(begun, 1),
                    !.runPromise = k,
                    !.calls[k] = [pc |-> "started", promise |-> k]]
  /\ UNCHANGED <<quoteVars, finVars, adapterVars>>

\* a worker's getQuarterlyFinancials settled: the record is kept, the counters
\* and state.snapshot.run move, and the worker sleeps or takes the next index
WorkerFetched(r, w) ==
  /\ probe.fn = "refreshDailySalesSnapshot"
  /\ probe.runs[r].pc = "workers"
  /\ w \in DOMAIN probe.runs[r].workers
  /\ probe.runs[r].workers[w].pc = "fetch"
  /\ \E outcome \in FinancialOutcomes :
       LET run == probe.runs[r]
           counted == [run EXCEPT
                         !.success = IF outcome = "available" THEN @ + 1 ELSE @,
                         !.failed = IF outcome = "available" THEN @ ELSE @ + 1,
                         !.processed = @ + 1,
                         !.handled[run.workers[w].index + 1] = @ + 1]
       IN probe' = [probe EXCEPT
                      !.run = [@ EXCEPT !.processed = counted.processed,
                                        !.success = counted.success,
                                        !.failed = counted.failed],
                      !.runs[r] = IF probe.throttled
                                  THEN [counted EXCEPT !.workers[w].pc = "sleep"]
                                  ELSE WorkerTakes(counted, w)]
  /\ UNCHANGED <<quoteVars, finVars, adapterVars>>

\* sleep(throttleMs) is over
WorkerWakes(r, w) ==
  /\ probe.fn = "refreshDailySalesSnapshot"
  /\ probe.runs[r].pc = "workers"
  /\ w \in DOMAIN probe.runs[r].workers
  /\ probe.runs[r].workers[w].pc = "sleep"
  /\ probe' = [probe EXCEPT !.runs[r] = WorkerTakes(probe.runs[r], w)]
  /\ UNCHANGED <<quoteVars, finVars, adapterVars>>

\* Promise.all of the workers resolved: the completed snapshot is put in
\* state and saveSnapshotToStore is awaited
RunCompletes(r) ==
  /\ probe.fn = "refreshDailySalesSnapshot"
  /\ probe.runs[r].pc = "workers"
  /\ \A w \in DOMAIN probe.runs[r].workers : probe.runs[r].workers[w].pc = "returned"
  /\ probe' = [probe EXCEPT
                 !.run = RunCounts(probe.runs[r], "completed"),
                 !.runs[r] = [@ EXCEPT !.pc = "saving",
                                       !.final = RunCounts(probe.runs[r], "completed")]]
  /\ UNCHANGED <<quoteVars, finVars, adapterVars>>

\* the save settled: on success the finally block ends the run; on failure
\* the catch block marks the run failed and saves again
SaveSettles(r) ==
  /\ probe.fn = "refreshDailySalesSnapshot"
  /\ probe.runs[r].pc = "saving"
  /\ \E saved \in BOOLEAN :
       probe' = IF saved
                THEN [probe EXCEPT !.runPromise = 0, !.running = FALSE,
                                   !.runs[r].pc = "done", !.applied = TRUE]
                ELSE [probe EXCEPT !.run = RunCounts(probe.runs[r], "failed"),
                                   !.runs[r] = [@ EXCEPT !.pc = "resaving",
                                                         !.final = RunCounts(probe.runs[r], "failed")]]
  /\ UNCHANGED <<quoteVars, finVars, adapterVars>>

\* the save of the catch block settled, either way: finally
ResaveSettles(r) ==
  /\ probe.fn = "refreshDailySalesSnapshot"
  /\ probe.runs[r].pc = "resaving"
  /\ probe' = [probe EXCEPT !.runPromise = 0, !.running = FALSE,
                            !.runs[r].pc = "done", !.applied = TRUE]
  /\ UNCHANGED <<quoteVars, finVars, adapterVars>>

SalesNext ==
  \/ \E k \in SalesCallIds : RefreshStart(k)
  \/ \E k \in SalesCallIds : TargetsResolved(k)
  \/ \E r \in SalesCallIds, w \in 1..MAX_CONCURRENCY : WorkerFetched(r, w)
  \/ \E r \in SalesCallIds, w \in 1..MAX_CONCURRENCY : WorkerWakes(r, w)
  \/ \E r \in SalesCallIds : RunCompletes(r)
  \/ \E r \in SalesCallIds : SaveSettles(r)
  \/ \E r \in SalesCallIds : ResaveSettles(r)

SpecSales == SalesInit /\ [][SalesNext]_vars

\* ------------------------------------------------------------- the store
\* store.js on its own, after initializeStore: cachedDb and the database, each
\* the list of the updates applied to it, and the writeDb calls in the order
\* they were made, which is the chain of promises behind writeQueue.
MaxUpdates == 4

\* a slip in writeDb: the task is not chained behind writeQueue
TaskMayRunUnchained(tasks, i) == tasks[i].status = "queued"

\* writeQueue.then(task): the task runs once the promise before it has
\* fulfilled
TaskMayRun(tasks, i) ==
  /\ tasks[i].status = "queued"
  /\ i > 1 => tasks[i - 1].status = "fulfilled"

\* writeQueue.then(task) behind a rejected promise: the task is not called
\* and its promise is rejected with the same error
TaskIsPassedOver(tasks, i) ==
  /\ tasks[i].status = "queued"
  /\ i > 1 /\ tasks[i - 1].status = "rejected"

StoreInit ==
  /\ env = [maxCalls |-> 0, clockSteps |-> {}, schedule |-> <<>>]
  /\ ServiceIdle
  /\ \E mongoEnabled \in BOOLEAN :
       probe = [fn |-> "writeDb", applied |-> FALSE, mongoEnabled |-> mongoEnabled,
                cachedDb |-> <<>>, database |-> <<>>, tasks |-> <<>>]

\* writeDb(updater): the task is chained and the new writeQueue returned
WriteDb ==
  /\ probe.fn = "writeDb"
  /\ Len(probe.tasks) < MaxUpdates
  /\ probe' = [probe EXCEPT
                 !.tasks = Append(@, [status |-> "queued", ran |-> FALSE, received |-> <<>>,
                                      behind |-> Cardinality({j \in 1..Len(probe.tasks) :
                                                    probe.tasks[j].status
                                                      \in {"queued", "writing"}})])]
  /\ UNCHANGED <<quoteVars, finVars, adapterVars>>

\* the task of a writeDb call runs up to its await: the updater is given
\* cachedDb; if it throws the promise is rejected, else cachedDb is replaced
\* and the database write awaited (with the file store there is no await and
\* a failed file write is only logged)
TaskRuns(i) ==
  /\ probe.fn = "writeDb"
  /\ i \in DOMAIN probe.tasks
  /\ TaskMayRun(probe.tasks, i)
  /\ \E throws, fileWritten \in BOOLEAN :
       LET current == probe.cachedDb
           ran == [probe.tasks[i] EXCEPT !.ran = TRUE, !.received = current]
       IN probe' = IF throws
                   THEN [probe EXCEPT !.tasks[i] = [ran EXCEPT !.status = "rejected"]]
                   ELSE IF probe.mongoEnabled
                   THEN [probe EXCEPT !.cachedDb = Append(current, i),
                                      !.tasks[i] = [ran EXCEPT !.status = "writing"]]
                   ELSE [probe EXCEPT !.cachedDb = Append(current, i),
                                      !.database = IF fileWritten THEN Append(current, i) ELSE @,
                                      !.tasks[i] = [ran EXCEPT !.status = "fulfilled"],
                                      !.applied = TRUE]
  /\ UNCHANGED <<quoteVars, finVars, adapterVars>>

\* the awaited updateOne settles
WriteSettles(i) ==
  /\ probe.fn = "writeDb"
  /\ i \in DOMAIN probe.tasks
  /\ probe.tasks[i].status = "writing"
  /\ \E written \in BOOLEAN :
       probe' = IF written
                THEN [probe EXCEPT !.database = Append(probe.tasks[i].received, i),
                                   !.tasks[i].status = "fulfilled", !.applied = TRUE]
                ELSE [probe EXCEPT !.tasks[i].status = "rejected"]
  /\ UNCHANGED <<quoteVars, finVars, adapterVars>>

\* the promise before the task was rejected: so is the task's
TaskPassedOver(i) ==
  /\ probe.fn = "writeDb"
  /\ i \in DOMAIN probe.tasks
  /\ TaskIsPassedOver(probe.tasks, i)
  /\ probe' = [probe EXCEPT !.tasks[i].status = "rejected"]
  /\ UNCHANGED <<quoteVars, finVars, adapterVars>>

StoreNext ==
  \/ WriteDb
  \/ \E i \in 1..MaxUpdates : TaskRuns(i)
  \/ \E i \in 1..MaxUpdates : WriteSettles(i)
  \/ \E i \in 1..MaxUpdates : TaskPassedOver(i)

SpecStore == StoreInit /\ [][StoreNext]_vars

\* the updates before update i whose updater returned a state
AppliedBefore(i) == SelectSeq([j \in 1..(i - 1) |-> j], LAMBDA j : j \in SeqToSet(probe.cachedDb))

C39_LaterUpdatesStillRun ==
  probe.fn = "writeDb" =>
    \A i \in DOMAIN probe.tasks : probe.tasks[i].status = "rejected" => probe.tasks[i].ran

\* ------------------------------------------------------- the symbol master
\* refreshSymbolMaster on its own: refreshPromise (0 for null, else the number
\* of the refresh it stands for), the refreshes started so far, each with its
\* place in the async body and the number of times it asked each upstream
\* list, and the calls made so far.
MaxMasterCalls == 3

ListAnswers == {"items", "empty", "error"}

\* a slip in refreshSymbolMaster: the guard on refreshPromise is missing
JoinsInFlightNever(p) == FALSE

\* if (refreshPromise) return refreshPromise
JoinsInFlight(p) == p.refreshPromise # 0

\* the refresh settles: the call that started it leaves its await first and
\* its finally clears refreshPromise; the calls that were handed the same
\* promise settle with the same outcome
RefreshSettled(p, r, outcome, hasItems) ==
  [p EXCEPT !.refreshes[r].pc = outcome,
            !.refreshPromise = 0,
            !.hasItems = hasItems,
            !.calls = [k \in DOMAIN p.calls |->
                         IF p.calls[k].refresh = r THEN [p.calls[k] EXCEPT !.status = outcome]
                         ELSE p.calls[k]],
            !.applied = TRUE]

MasterInit ==
  /\ env = [maxCalls |-> 0, clockSteps |-> {}, schedule |-> <<>>]
  /\ ServiceIdle
  /\ \E hasItems \in BOOLEAN :
       probe = [fn |-> "refreshSymbolMaster", applied |-> FALSE, hasItems |-> hasItems,
                refreshPromise |-> 0, refreshes |-> <<>>, calls |-> <<>>]

\* refreshSymbolMaster(): joins the refresh in flight, or starts one, whose
\* body runs up to the await of fetchNseItems()
RefreshSymbolMaster ==
  /\ probe.fn = "refreshSymbolMaster"
  /\ Len(probe.calls) < MaxMasterCalls
  /\ LET inFlight == {r \in DOMAIN probe.refreshes : probe.refreshes[r].pc \in {"nse", "iifl", "persist"}}
         r == Len(probe.refreshes) + 1
     IN probe' = IF JoinsInFlight(probe)
                 THEN [probe EXCEPT
                         !.calls = Append(@, [refresh |-> probe.refreshPromise, starts |-> FALSE,
                                              status |-> "pending", inFlight |-> inFlight])]
                 ELSE [probe EXCEPT
                         !.refreshPromise = r,
                         !.refreshes = Append(@, [pc |-> "nse", nse |-> "", nseAsked |-> 1, iiflAsked |-> 0]),
                         !.calls = Append(@, [refresh |-> r, starts |-> TRUE,
                                              status |-> "pending", inFlight |-> inFlight])]
  /\ UNCHANGED <<quoteVars, finVars, adapterVars>>

\* fetchNseItems() settles; fetchIiflItems() is asked
NseListSettles(r) ==
  /\ probe.fn = "refreshSymbolMaster"
  /\ r \in DOMAIN probe.refreshes
  /\ probe.refreshes[r].pc = "nse"
  /\ \E answer \in ListAnswers :
       probe' = [probe EXCEPT !.refreshes[r] = [@ EXCEPT !.pc = "iifl", !.nse = answer,
                                                         !.iiflAsked = @ + 1]]
  /\ UNCHANGED <<quoteVars, finVars, adapterVars>>

\* fetchIiflItems() settles: with nothing from either list the refresh ends
\* (the old items are kept, or it throws when there are none); else the state
\* is replaced and persistToStore awaited
IiflListSettles(r) ==
  /\ probe.fn = "refreshSymbolMaster"
  /\ r \in DOMAIN probe.refreshes
  /\ probe.refreshes[r].pc = "iifl"
  /\ \E answer \in ListAnswers :
       probe' = IF probe.refreshes[r].nse # "items" /\ answer # "items"
                THEN RefreshSettled(probe, r, IF probe.hasItems THEN "fulfilled" ELSE "rejected",
                                    probe.hasItems)
                ELSE [probe EXCEPT !.refreshes[r].pc = "persist", !.hasItems = TRUE]
  /\ UNCHANGED <<quoteVars, finVars, adapterVars>>

\* persistToStore settles
PersistSettles(r) ==
  /\ probe.fn = "refreshSymbolMaster"
  /\ r \in DOMAIN probe.refreshes
  /\ probe.refreshes[r].pc = "persist"
  /\ \E persisted \in BOOLEAN :
       probe' = RefreshSettled(probe, r, IF persisted THEN "fulfilled" ELSE "rejected", TRUE)
  /\ UNCHANGED <<quoteVars, finVars, adapterVars>>

MasterNext ==
  \/ RefreshSymbolMaster
  \/ \E r \in 1..MaxMasterCalls : NseListSettles(r)
  \/ \E r \in 1..MaxMasterCalls : IiflListSettles(r)
  \/ \E r \in 1..MaxMasterCalls : PersistSettles(r)

SpecMaster == MasterInit /\ [][MasterNext]_vars

RefreshesInFlight == {r \in DOMAIN probe.refreshes : probe.refreshes[r].pc \in {"nse", "iifl", "persist"}}

\* C40: a refreshSymbolMaster call made while a refresh is in flight is handed
\* that refresh and starts none, so one refresh at most is in flight and each
\* refresh asks each upstream list once; a call made when no refresh is in
\* flight (none yet, or the last one settled either way) starts a new one.
C40_OneRefreshInFlight ==
  probe.fn = "refreshSymbolMaster" =>
    /\ Cardinality(RefreshesInFlight) <= 1
    /\ \A r \in DOMAIN probe.refreshes :
         /\ probe.refreshes[r].nseAsked = 1 /\ probe.refreshes[r].iiflAsked <= 1
         /\ Cardinality({k \in DOMAIN probe.calls : probe.calls[k].refresh = r /\ probe.calls[k].starts}) = 1
    /\ \A k \in DOMAIN probe.calls :
         /\ probe.calls[k].inFlight # {} => ~probe.calls[k].starts /\ probe.calls[k].inFlight = {probe.calls[k].refresh}
         /\ probe.calls[k].inFlight = {} => probe.calls[k].starts
         /\ probe.calls[k].status = "pending" <=> probe.calls[k].refresh \in RefreshesInFlight
         /\ probe.calls[k].status # "pending" => probe.calls[k].status = probe.refreshes[probe.calls[k].refresh].pc

\* two calls shared the first refresh, which failed, and a third call started
\* the second refresh
C40_SharedThenStartedAnew ==
  /\ probe.fn = "refreshSymbolMaster"
  /\ Len(probe.calls) = 3
  /\ probe.calls[1].refresh = 1 /\ probe.calls[2].refresh = 1 /\ probe.calls[3].refresh = 2
  /\ probe.calls[1].status = "rejected" /\ probe.calls[2].status = "rejected"
  /\ probe.calls[3].starts /\ probe.refreshes[2].iiflAsked = 1

\* ------------------------------------------------------------ properties

\* the getQuotes calls that have returned
Returned == {c \in CallerIds : call[c].pc = "done" /\ ~call[c].threw}

\* a price that is present and > 0
PricePositive(price) == ~IsNull(price) /\ Val(price) > 0

\* every provider of the effective order was tried for the symbol and none of
\* them produced a hit: each left a skip, an error, a miss or an unusable quote
AllProvidersFailed(c, s) ==
  /\ s \in DOMAIN call[c].outcomes
  /\ Len(call[c].outcomes[s]) = Len(ProviderOrder(config))
  /\ \A j \in 1..Len(call[c].outcomes[s]) :
       call[c].outcomes[s][j][2] \in {"skip", "error", "miss", "unusable"}

\* C1: getQuotes returns one quote per element of the de-duplicated, normalized
\* input list, and the i-th quote carries the symbol of the i-th element.
C1_QuotePerSymbolInOrder ==
  \A c \in Returned :
    /\ Len(call[c].result) = Len(call[c].symbols)
    /\ \A i \in 1..Len(call[c].symbols) :
         call[c].result[i].symbol = call[c].symbols[i]

\* C2: no failure of a provider makes getQuotes throw; a call that has
\* completed returned a list with one entry per requested symbol.
C2_ProviderFailuresNeverThrow ==
  \A c \in CallerIds :
    /\ ~call[c].threw
    /\ call[c].pc = "done" => Len(call[c].result) = Len(call[c].symbols)

\* C2 witness: a call returned although every provider that was asked threw
C2_ReturnedAfterErrors ==
  \E c \in Returned : \E s \in DOMAIN call[c].outcomes :
    /\ \E j \in 1..Len(call[c].outcomes[s]) :
         call[c].outcomes[s][j] = <<"bseindia", "error">>
    /\ \E j \in 1..Len(call[c].outcomes[s]) :
         call[c].outcomes[s][j] = <<"screener", "error">>
    /\ Len(call[c].result) = 1

\* C3: when every provider failed for a symbol and the quote cache held no
\* entry for it, the quote returned for it has price null and dataStatus
\* "unavailable".
C3_AllFailNoCacheUnavailable ==
  \A c \in Returned : \A i \in 1..Len(call[c].symbols) :
    (/\ AllProvidersFailed(c, call[c].symbols[i])
     /\ ~call[c].startCache[call[c].symbols[i]].present)
    => /\ IsNull(call[c].result[i].regularMarketPrice)
       /\ call[c].result[i].dataStatus = "unavailable"

\* C3 witness: a call returned for a symbol that no provider resolved and the
\* cache did not hold
C3_AllFailedNoCacheReached ==
  \E c \in Returned : \E i \in 1..Len(call[c].symbols) :
    /\ AllProvidersFailed(c, call[c].symbols[i])
    /\ ~call[c].startCache[call[c].symbols[i]].present
    /\ call[c].result[i].dataStatus = "unavailable"

\* C4: when every provider failed for a symbol and the quote cache held an
\* expired entry for it with price P > 0, the quote returned for it has price
\* P, dataStatus "stale" and a source ending in ":stale".
C4_AllFailStaleServed ==
  \A c \in Returned : \A i \in 1..Len(call[c].symbols) :
    (/\ AllProvidersFailed(c, call[c].symbols[i])
     /\ call[c].startCache[call[c].symbols[i]].present
     /\ PricePositive(call[c].startCache[call[c].symbols[i]].price))
    => /\ call[c].result[i].regularMarketPrice
            = call[c].startCache[call[c].symbols[i]].price
       /\ call[c].result[i].dataStatus = "stale"
       /\ Len(call[c].result[i].source) >= 2
       /\ call[c].result[i].source[Len(call[c].result[i].source)] = "stale"

\* C4 witness: a call returned the expired cached price of a symbol that no
\* provider resolved
C4_StaleServedReached ==
  \E c \in Returned : \E i \in 1..Len(call[c].symbols) :
    /\ AllProvidersFailed(c, call[c].symbols[i])
    /\ call[c].startCache[call[c].symbols[i]].present
    /\ PricePositive(call[c].startCache[call[c].symbols[i]].price)
    /\ call[c].result[i].dataStatus = "stale"

\* C5: a getQuotes call for the same symbols as the call that returned last,
\* started within the quote TTL after that return, issues no call to a quote
\* provider.
C5_RepeatWithinTtlNoProviderCall ==
  \A c \in CallerIds : call[c].repeat => call[c].providerCalls = 0

\* C6: a provider's quote becomes a hit only when its price is present and
\* > 0; a symbol whose answer carried no price, or a price <= 0, is not in the
\* result map and is still pending for the next provider.
C6_OnlyPositivePriceAccepted ==
  \A c \in CallerIds :
    /\ \A s \in DOMAIN call[c].st.resultMap :
         PricePositive(call[c].st.resultMap[s].regularMarketPrice)
    /\ \A t \in DOMAIN call[c].lastResp :
         (/\ call[c].lastResp[t] # NoAnswer
          /\ ~PricePositive(
                normalizeQuoteShape(
                  AdapterQuote(call[c].lastResp[t], t, call[c].lastProvider)
                ).regularMarketPrice))
         => /\ t \in call[c].st.pending
            /\ t \notin DOMAIN call[c].st.resultMap

\* C6 witness: the first provider answered with a price of 0 and the symbol is
\* pending while the next provider is being asked
C6_ZeroPriceStaysPending ==
  \E c \in CallerIds : \E t \in DOMAIN call[c].lastResp :
    /\ call[c].pc = "resolve"
    /\ call[c].lastResp[t] = "zero"
    /\ t \in call[c].st.pending

\* C7 as stated: no unusable quote (price null or <= 0) is ever stored in the
\* quote cache.
C7_NoUnusableQuoteCached ==
  \A k \in DOMAIN quoteCache : PricePositive(quoteCache[k].value.regularMarketPrice)

\* C7 amended: no unusable quote of a provider is stored in the quote cache;
\* every cached quote has a price that is null or > 0, and a cached quote with
\* a null price is the placeholder getQuotes built itself (source
\* "unavailable", with ":stale" once it was served again).
C7_OnlyPlaceholdersCachedUnusable ==
  \A k \in DOMAIN quoteCache :
    \/ PricePositive(quoteCache[k].value.regularMarketPrice)
    \/ /\ IsNull(quoteCache[k].value.regularMarketPrice)
       /\ quoteCache[k].value.source[1] = "unavailable"

\* C7 witness: the cache holds the placeholder of a symbol whose provider
\* answered with an unusable quote
C7_PlaceholderCached ==
  \E k \in DOMAIN quoteCache :
    /\ IsNull(quoteCache[k].value.regularMarketPrice)
    /\ quoteCache[k].value.source[1] = "unavailable"
    /\ \E j \in 1..Len(quoteCache[k].value.providerTrace) :
         quoteCache[k].value.providerTrace[j] = <<"bseindia", "unusable">>

\* C8: every quote returned by getQuotes has a price that is null or > 0.
C8_ReturnedPriceNullOrPositive ==
  \A c \in Returned : \A i \in 1..Len(call[c].result) :
    \/ IsNull(call[c].result[i].regularMarketPrice)
    \/ Val(call[c].result[i].regularMarketPrice) > 0

\* C8 witness: a returned live quote with a positive price, from a call in
\* which an earlier provider had answered with a price of 0
C8_PositivePriceReturned ==
  \E c \in Returned : \E i \in 1..Len(call[c].result) :
    /\ PricePositive(call[c].result[i].regularMarketPrice)
    /\ call[c].result[i].dataStatus = "live"
    /\ \E j \in 1..Len(call[c].result[i].providerTrace) :
         call[c].result[i].providerTrace[j] = <<"bseindia", "unusable">>

\* C9 as stated: getQuarterlyFinancials never throws to its caller, whatever
\* the symbol input.
C9_FinancialsNeverThrow == ~fin.threw

\* C9 amended: for every input that normalizes to a symbol,
\* getQuarterlyFinancials does not throw, and a call that produced no
\* quarterly rows returns a report with dataStatus "unavailable" and a
\* non-empty message; only an input that normalizes to nothing is rejected
\* with a thrown error.
C9_FinancialsNeverThrowForSymbols ==
  /\ fin.threw => fin.symbol = <<>>
  /\ (fin.pc = "done" /\ fin.symbol # <<>>) =>
       /\ ~fin.threw
       /\ ~IsNoReport(fin.result)
       /\ fin.result.rows = <<>> =>
            /\ fin.result.dataStatus = "unavailable"
            /\ ~IsNull(fin.result.message)
            /\ Val(fin.result.message) # ""

\* C9 witness: a call returned the unavailable report after a page fetch threw
C9_UnavailableAfterFetchError ==
  /\ fin.pc = "done"
  /\ ~fin.threw
  /\ ~IsNoReport(fin.result)
  /\ fin.result.dataStatus = "unavailable"
  /\ \E j \in 1..Len(fin.result.providerTrace) :
       fin.result.providerTrace[j][2] = "error"

\* C10: after an "unavailable" report was returned for (symbol, limit), the
\* next call for the same (symbol, limit) is not served from the cache: it
\* runs the scrape again.
C10_UnavailableNeverServedFromCache ==
  (fin.afterUnavailable /\ fin.symbol # <<>>) =>
     /\ ~fin.fromCache
     /\ fin.pc = "done" => fin.fetches >= 1

\* C10 witness: a call without forceRefresh, started in the same instant in
\* which the unavailable report for its key was cached, fetched a page again
C10_RescrapedAfterUnavailable ==
  /\ fin.afterUnavailable
  /\ ~fin.forceRefresh
  /\ fin.pc = "done"
  /\ fin.requests >= 1
  /\ FinKey(fin.symbol, fin.limit) \in DOMAIN quarterlyFinancialCache
  /\ fin.updatedAt = 0

\* C11 as stated: after getQuarterlyFinancials returned an available report
\* for (symbol, limit), every unforced call for the key begun within the 6
\* hours after that return, with no forced refresh in between, returns that
\* report and fetches no page.
C11_ServedForSixHoursAfterReturn ==
  fin.afterAvailable =>
     /\ fin.fetches = 0
     /\ fin.pc = "done" => (fin.fromCache /\ fin.result = fin.expected)

\* C11 amended: the 6 hours run from the scrape that produced the report, not
\* from the last time it was returned: every unforced call for the key begun
\* within 6 hours after the report was scraped, with no forced refresh in
\* between, returns that report and fetches no page.
C11_ServedForSixHoursAfterScrape ==
  fin.afterScrape =>
     /\ fin.fetches = 0
     /\ fin.pc = "done" => (fin.fromCache /\ fin.result = fin.expected)

\* C11 witness: an unforced call begun exactly 6 hours after the scrape was
\* served the scraped report from the cache
C11_ServedAtSixHours ==
  /\ fin.afterScrape
  /\ fin.pc = "done"
  /\ fin.fromCache
  /\ fin.result.dataStatus = "available"
  /\ fin.updatedAt - lastReturned[FinKey(fin.symbol, fin.limit)].fetchedAt
       = QUARTERLY_FINANCIAL_CACHE_TTL_MS

\* C12: a call with forceRefresh = true is never served from the cache: it
\* runs the candidate loop and fetches, even when the cache held a fresh
\* available entry for its key when it began.
C12_ForcedRefreshAlwaysFetches ==
  (fin.forceRefresh /\ fin.symbol # <<>>) =>
     /\ ~fin.fromCache
     /\ fin.pc = "done" =>
          /\ fin.fetches >= 1
          /\ fin.hadFresh => fin.requests >= 1

\* C12 witness: a forced call that found a fresh available entry has returned
\* after requesting a page
C12_ForcedOverFreshEntry ==
  /\ fin.forceRefresh
  /\ fin.hadFresh
  /\ fin.pc = "done"
  /\ fin.requests >= 1

\* C13: in every report returned by getQuarterlyFinancials, each row's values
\* array has exactly as many entries as quarterLabels.
C13_RowValuesMatchQuarterLabels ==
  (fin.pc = "done" /\ ~fin.threw) =>
     \A r \in 1..Len(fin.result.rows) :
       Len(fin.result.rows[r].values) = Len(fin.result.quarterLabels)

\* C13 witness: a returned report with a growth row and with a row whose last
\* value is the null standing for a cell the page did not have
C13_PaddedRowReturned ==
  /\ fin.pc = "done"
  /\ ~fin.threw
  /\ Len(fin.result.quarterLabels) = 2
  /\ \E r \in 1..Len(fin.result.rows) : fin.result.rows[r].key = "sales_qoq"
  /\ \E r \in 1..Len(fin.result.rows) :
       /\ fin.result.rows[r].key = "pat"
       /\ ~IsNull(fin.result.rows[r].values[1])
       /\ IsNull(fin.result.rows[r].values[2])

\* the getTechnicalSnapshot calls of every caller's current getQuotes call
Lookups == {l \in UNION {SeqToSet(call[c].lookups) : c \in CallerIds} : TRUE}

\* C14: after a run of the technical cascade returned a non-null snapshot
\* for a symbol, every getTechnicalSnapshot call for the symbol made within
\* the next 30 minutes returns that snapshot from the cache and queries no
\* source.
C14_SnapshotServedForThirtyMinutes ==
  \A l \in Lookups :
    (/\ l.prior.known
     /\ ~IsNullSnapshot(l.prior.value)
     /\ l.at - l.prior.at <= TECHNICAL_CACHE_TTL_MS)
    => /\ l.served
       /\ l.queried = <<>>
       /\ l.value = l.prior.value

\* C14 witness: a call made exactly 30 minutes after the cascade returned a
\* partial snapshot (ema50 only) was answered from the cache
C14_ServedAtThirtyMinutes ==
  \E l \in Lookups :
    /\ l.prior.known
    /\ ~IsNullSnapshot(l.prior.value)
    /\ IsNull(l.prior.value.ema200)
    /\ l.at - l.prior.at = TECHNICAL_CACHE_TTL_MS
    /\ l.served
    /\ l.value = l.prior.value

\* C15: after a run of the technical cascade ended with null for a symbol,
\* a getTechnicalSnapshot call for the symbol made within 2 minutes returns
\* null and queries no source, and a call made later than that runs the
\* cascade again.
C15_NullCachedForTwoMinutes ==
  \A l \in Lookups :
    (l.prior.known /\ IsNullSnapshot(l.prior.value))
    => IF l.at - l.prior.at <= TECHNICAL_NULL_CACHE_TTL_MS
         THEN l.served /\ l.queried = <<>> /\ IsNullSnapshot(l.value)
       ELSE /\ ~l.served
            /\ l.done => l.queried # <<>>

\* C15 witness: null was cached, and a call made more than 2 minutes after
\* the cascade has run it again
C15_NullServedThenRerun ==
  \E l \in Lookups :
    /\ l.prior.known
    /\ IsNullSnapshot(l.prior.value)
    /\ l.at - l.prior.at > TECHNICAL_NULL_CACHE_TTL_MS
    /\ ~l.served
    /\ l.done
    /\ l.queried # <<>>

\* the first request of the adapter call that came back with 401, 403 or 429
\* (0 when none did)
FirstRejected(requests) ==
  IF \E i \in 1..Len(requests) : requests[i].status \in SessionStatuses
  THEN CHOOSE i \in 1..Len(requests) :
         /\ requests[i].status \in SessionStatuses
         /\ \A j \in 1..(i - 1) : requests[j].status \notin SessionStatuses
  ELSE 0

\* C16: when a quote request of an exchange adapter comes back with 401, 403
\* or 429, the adapter refreshes its session once and, the session refreshed,
\* sends that same request once more and nothing after it; when the retry
\* fails the call ends in an error for the symbol.
C16_RefreshOnceRetrySameRequestOnce ==
  LET k == adapter.call
      i == FirstRejected(k.requests)
  IN i > 0 =>
       /\ k.refreshes = 1
       /\ Len(k.requests) <= i + 1
       /\ Len(k.requests) = i + 1 =>
            /\ k.requests[i + 1].request = k.requests[i].request
            /\ (k.pc = "done" /\ k.requests[i + 1].status # 200) => k.result = "error"
       /\ (k.pc = "done" /\ Len(k.requests) = i) => k.result = "error"

\* the configured order as the service reads it: empty entries dropped
Configured == SelectSeq(probe.configured, LAMBDA provider : provider # "")

\* what C17 says of every configured order: the effective order holds the
\* configured providers once each in their configured order, and besides them
\* only the two adapters that were added
KeepsConfiguredOrder ==
  /\ FilterIn(probe.order, SeqToSet(Configured)) = Dedupe(Configured)
  /\ SeqToSet(probe.order) = SeqToSet(Configured) \cup {"bseindia", "screener"}
  /\ Len(probe.order) = Cardinality(SeqToSet(probe.order))
  /\ "screener" \notin SeqToSet(Configured) => probe.order[Len(probe.order)] = "screener"

\* C17 as stated: the effective order is the configured order without
\* duplicates, with bseindia, when it is not configured, immediately after
\* nseindia, and with screener, when it is not configured, at the end.
C17_SecondaryAfterPrimary ==
  (probe.fn = "getEffectiveProviderOrder" /\ probe.applied) =>
     /\ KeepsConfiguredOrder
     /\ "bseindia" \notin SeqToSet(Configured) =>
          /\ "nseindia" \in SeqToSet(probe.order)
          /\ IndexOf(probe.order, "bseindia") = IndexOf(probe.order, "nseindia") + 1

\* C17 amended: as stated when nseindia is configured; when neither exchange
\* adapter is configured, bseindia is put first.
C17_SecondaryAfterPrimaryOrFirst ==
  (probe.fn = "getEffectiveProviderOrder" /\ probe.applied) =>
     /\ KeepsConfiguredOrder
     /\ "bseindia" \notin SeqToSet(Configured) =>
          IF "nseindia" \in SeqToSet(Configured)
          THEN IndexOf(probe.order, "bseindia") = IndexOf(probe.order, "nseindia") + 1
          ELSE probe.order[1] = "bseindia"

\* C17 witness: from yahoo, nseindia, yahoo the order yahoo, nseindia,
\* bseindia, screener was made
C17_InsertedAndAppended ==
  /\ probe.fn = "getEffectiveProviderOrder"
  /\ probe.applied
  /\ probe.configured = <<"yahoo", "nseindia", "yahoo">>
  /\ probe.order = <<"yahoo", "nseindia", "bseindia", "screener">>

\* the vendors whose API key is not configured, as quote provider and as
\* technical source
KeylessVendors ==
  (IF config.twelveDataApiKey THEN {} ELSE {"twelvedata", "twelvedata-tech"})
  \cup (IF config.alphaVantageApiKey THEN {} ELSE {"alphavantage", "alphavantage-tech"})

\* C18: during a getQuotes call no vendor without a configured API key is
\* called: not as a quote provider in the resolution pass or in the enrichment
\* pass, and not as a source of the technical cascade.
C18_KeylessVendorNeverCalled ==
  \A c \in CallerIds :
    /\ call[c].called \cap KeylessVendors = {}
    /\ call[c].pc \in {"resolve", "enrich"} =>
         ProviderOrder(config)[call[c].idx] \notin KeylessVendors
    /\ \A i \in 1..Len(call[c].lookups) :
         SeqToSet(call[c].lookups[i].queried) \cap KeylessVendors = {}
    /\ call[c].pc = "tech" => TechSources[call[c].techStage] \notin KeylessVendors

\* C18 witness: a call returned in which twelvedata, configured without a
\* key, was skipped in the resolution pass, and in which the enrichment pass
\* and a full technical cascade ran
C18_SkippedInBothPasses ==
  \E c \in Returned : \E s \in DOMAIN call[c].outcomes :
    /\ "twelvedata" \in KeylessVendors
    /\ \E j \in 1..Len(call[c].outcomes[s]) :
         call[c].outcomes[s][j] = <<"twelvedata", "skip", "missing-api-key">>
    /\ call[c].called = {"bseindia", "screener"}
    /\ call[c].providerCalls >= 3
    /\ \E i \in 1..Len(call[c].lookups) :
         /\ call[c].lookups[i].done
         /\ IsNullSnapshot(call[c].lookups[i].value)
         /\ ~call[c].lookups[i].served

\* C19: every quote a getQuotes call returned has a providerTrace of at most
\* 40 entries, whatever provider order is configured and whatever calls came
\* before.
C19_TraceAtMostForty ==
  \A c \in Returned : \A i \in 1..Len(call[c].result) :
    Len(call[c].result[i].providerTrace) <= TRACE_LIMIT

\* the fields of a technical snapshot the merge may fill
TechnicalFields == {"ema50", "ema200", "thirtyWeekSma", "marketCycleStage"}

Merged == probe.fn = "mergeTechnicalSnapshots" /\ probe.applied

\* C20: mergeTechnicalSnapshots(base, candidate) returns every non-null
\* ema50, ema200, thirtyWeekSma and marketCycleStage of base as it was,
\* whatever the candidate holds for that field.
C20_BaseFieldsKept ==
  Merged /\ ~IsNullSnapshot(probe.base) =>
    /\ ~IsNullSnapshot(probe.merged)
    /\ \A f \in TechnicalFields :
         probe.base[f] # Null => probe.merged[f] = probe.base[f]

\* C20 witness: a merge in which the candidate offers another ema50 and
\* another stage than the base holds, and an ema200 the base lacks; the
\* result has the ema50 and the stage of the base and the ema200 of the
\* candidate
C20_KeptAndFilled ==
  /\ Merged
  /\ ~IsNullSnapshot(probe.base) /\ ~IsNullSnapshot(probe.candidate)
  /\ probe.base.ema50 # Null /\ probe.candidate.ema50 # Null
  /\ probe.candidate.ema50 # probe.base.ema50
  /\ probe.base.marketCycleStage # Null /\ probe.candidate.marketCycleStage # Null
  /\ probe.candidate.marketCycleStage # probe.base.marketCycleStage
  /\ probe.base.ema200 = Null /\ probe.candidate.ema200 # Null
  /\ probe.merged.ema50 = probe.base.ema50
  /\ probe.merged.marketCycleStage = probe.base.marketCycleStage
  /\ probe.merged.ema200 = probe.candidate.ema200

\* the quarter columns of a header row in page order: every cell after the
\* label cell that is not the TTM column
QuarterColumnsOf(headerCells) ==
  SelectSeq(Tail(headerCells), LAMBDA label : label # "TTM" /\ label # "")

\* the requested limit clamped to 1..8, 6 when absent or not a number
RequestedLimit(limit) ==
  IF IsNull(limit) THEN 6
  ELSE IF Val(limit) < 1 THEN 1 ELSE IF Val(limit) > 8 THEN 8 ELSE Val(limit)

\* C21: the quarterLabels of a report are the last min(N, available) quarter
\* columns of the table in page order, without the TTM column, where N is the
\* requested limit clamped to 1..8 and 6 when no number was given.
C21_LastColumnsOfClampedLimit ==
  probe.fn = "quarterLabels" /\ probe.applied =>
    probe.quarterLabels =
      SliceLast(QuarterColumnsOf(probe.headerCells), RequestedLimit(probe.limit))

GrowthApplied == probe.fn = "computeGrowthSeries" /\ probe.applied

\* growth is defined at position i (counted from 1): a lagged value exists,
\* both values are present and the lagged one is not zero
GrowthDefined(values, lag, i) ==
  /\ i > lag
  /\ ~IsNull(values[i]) /\ ~IsNull(values[i - lag])
  /\ Val(values[i - lag]) # 0

Abs(n) == IF n < 0 THEN 0 - n ELSE n

\* C22 as stated: each growth value equals (v[i] - v[i-L]) / v[i-L] x 100
\* where that is defined and is null everywhere else (amounts in hundredths,
\* growth in hundredths of a percent).
C22_GrowthIsExactQuotient ==
  GrowthApplied =>
    /\ Len(probe.growth) = Len(probe.values)
    /\ \A i \in 1..Len(probe.values) :
         IF GrowthDefined(probe.values, probe.lag, i)
         THEN /\ ~IsNull(probe.growth[i])
              /\ Val(probe.growth[i]) * Val(probe.values[i - probe.lag])
                   = 10000 * (Val(probe.values[i]) - Val(probe.values[i - probe.lag]))
         ELSE IsNull(probe.growth[i])

\* C22 amended: each growth value is (v[i] - v[i-L]) / v[i-L] x 100 rounded
\* to two decimals (at most half a hundredth of a percent away from it) where
\* that is defined, and is null everywhere else.
C22_GrowthIsRoundedQuotient ==
  GrowthApplied =>
    /\ Len(probe.growth) = Len(probe.values)
    /\ \A i \in 1..Len(probe.values) :
         IF GrowthDefined(probe.values, probe.lag, i)
         THEN /\ ~IsNull(probe.growth[i])
              /\ Abs(2 * Val(probe.growth[i]) * Val(probe.values[i - probe.lag])
                       - 20000 * (Val(probe.values[i]) - Val(probe.values[i - probe.lag])))
                   <= Abs(Val(probe.values[i - probe.lag]))
         ELSE IsNull(probe.growth[i])

\* C22 witness: a year-on-year series of five quarters whose fifth growth
\* value is -3.03 percent, the rounding of (32 - 33) / 33 x 100
C22_RoundedYearOnYear ==
  /\ GrowthApplied
  /\ probe.lag = 4
  /\ Len(probe.values) = 5
  /\ probe.values[1] = Num(33) /\ probe.values[5] = Num(32)
  /\ \A i \in 1..4 : IsNull(probe.growth[i])
  /\ probe.growth[5] = Num(0 - 303)

StageApplied == probe.fn = "classifyWeinsteinStage" /\ probe.applied

\* slopePct = (sma - prev) / prev x 100 is above 0.05, or below -0.05, for a
\* previous average other than 0: sma / prev is above 1.0005, or below 0.9995
SlopeRising(sma, before) ==
  IF before > 0 THEN 2000 * sma > 2001 * before ELSE 2000 * sma < 2001 * before
SlopeFalling(sma, before) ==
  IF before > 0 THEN 2000 * sma < 1999 * before ELSE 2000 * sma > 1999 * before

\* C23: for a close, a 30-week average and a previous 30-week average that
\* are all present (and a previous average other than 0, where slopePct is
\* defined), the classifier returns Markup when close >= sma and slopePct >
\* 0.05, Markdown when close < sma and slopePct < -0.05, otherwise
\* Accumulation when close >= sma and Distribution when close < sma.
C23_StageFromCloseAndSlope ==
  ( /\ StageApplied
    /\ ~IsNull(probe.close) /\ ~IsNull(probe.sma30Week) /\ ~IsNull(probe.prevSma30Week)
    /\ Val(probe.prevSma30Week) # 0 ) =>
    LET close == Val(probe.close)
        sma == Val(probe.sma30Week)
        before == Val(probe.prevSma30Week)
    IN probe.stage =
         (IF close >= sma /\ SlopeRising(sma, before) THEN Txt("Markup")
          ELSE IF close < sma /\ SlopeFalling(sma, before) THEN Txt("Markdown")
          ELSE IF close >= sma THEN Txt("Accumulation")
          ELSE Txt("Distribution"))

\* C23 witness: close 1.10, average 1.00, previous average 0.95 (a slope of
\* about 5.26 percent) is classified as Markup
C23_RisingAboveAverageIsMarkup ==
  /\ StageApplied
  /\ probe.close = Num(110) /\ probe.sma30Week = Num(100) /\ probe.prevSma30Week = Num(95)
  /\ probe.stage = Txt("Markup")

\* C24: a quote is served from the quote cache without contacting providers
\* only while at most one quote TTL has elapsed since the call that fetched it
\* from the providers: reading an entry does not extend its lifetime.
C24_ServedWithinOneTtlOfFetch ==
  \A c \in CallerIds : \A age \in call[c].cachedAges :
    0 <= age /\ age <= marketCacheTtlMs

\* what the provider called in this step of the resolution pass answered for
\* target t, as the loop sees it (after normalizeQuoteShape)
AnsweredQuote(nx, t, provider) ==
  normalizeQuoteShape(AdapterQuote(nx.lastResp[t], t, provider))

AnsweredUsable(nx, t, provider) ==
  /\ nx.lastResp[t] # NoAnswer
  /\ ~IsNullQuote(AnsweredQuote(nx, t, provider))
  /\ isUsableQuote(AnsweredQuote(nx, t, provider))

\* one step of the resolution pass of a call, from cl to nx: the provider of
\* the step is sent the pending symbols only, none of them accepted before;
\* every accepted quote keeps its price and source; a symbol is accepted only
\* with the usable quote this provider returned for it; and every usable
\* quote returned for a symbol not yet accepted is accepted (and the symbol
\* leaves the pending set)
ResolutionStep(cl, nx, provider, targets) ==
  LET returned == nx.lastProvider = provider /\ cl.lastProvider # provider
  IN /\ SeqToSet(targets) \cap DOMAIN cl.st.resultMap = {}
     /\ \A s \in DOMAIN cl.st.resultMap :
          /\ s \in DOMAIN nx.st.resultMap
          /\ nx.st.resultMap[s].regularMarketPrice = cl.st.resultMap[s].regularMarketPrice
          /\ nx.st.resultMap[s].source = cl.st.resultMap[s].source
     /\ \A s \in DOMAIN nx.st.resultMap \ DOMAIN cl.st.resultMap :
          /\ returned
          /\ \E t \in SeqToSet(targets) :
               /\ AnsweredUsable(nx, t, provider)
               /\ AnsweredQuote(nx, t, provider).symbol = s
               /\ AnsweredQuote(nx, t, provider).regularMarketPrice
                    = nx.st.resultMap[s].regularMarketPrice
               /\ AnsweredQuote(nx, t, provider).source = nx.st.resultMap[s].source
     /\ returned =>
          \A t \in SeqToSet(targets) :
            AnsweredUsable(nx, t, provider) =>
              /\ AnsweredQuote(nx, t, provider).symbol \in DOMAIN nx.st.resultMap
              /\ AnsweredQuote(nx, t, provider).symbol \notin nx.st.pending
              /\ t = normalizeIndianSymbol(t) => t \notin nx.st.pending

\* C25: in the resolution pass the quote accepted for a symbol is the usable
\* quote of the earliest provider of the effective order that returns one for
\* it; an accepted symbol is sent to no later provider in that pass and its
\* price and source are not replaced.
C25_FirstUsableQuoteWins ==
  [][\A c \in CallerIds :
       call[c].pc = "resolve" /\ call'[c] # call[c] =>
         ResolutionStep(call[c], call'[c], ProviderOrder(config)[call[c].idx],
                        PendingTargets(call[c]))]_vars

\* C25 witness: the resolution pass of a call for two symbols is over; one
\* symbol was accepted from the first provider of the order and still has that
\* provider's quote, the other, for which the first provider had no usable
\* quote, was accepted from a later provider
C25_AcceptedFromFirstAndFromLater ==
  \E c \in CallerIds :
    /\ call[c].pc = "enrich"
    /\ call[c].st.pending = {}
    /\ \E s, t \in DOMAIN call[c].st.resultMap :
         /\ call[c].st.resultMap[s].providerTrace = <<<<"hit", ProviderOrder(config)[1]>>>>
         /\ PricePositive(call[c].st.resultMap[s].regularMarketPrice)
         /\ Len(call[c].st.resultMap[t].providerTrace) = 3
         /\ call[c].st.resultMap[t].providerTrace[1] = <<ProviderOrder(config)[1], "unusable">>
         /\ call[c].st.resultMap[t].providerTrace[3] = <<"hit", ProviderOrder(config)[3]>>
         /\ call[c].st.resultMap[t].source # call[c].st.resultMap[s].source

Filled == probe.fn = "mergeQuoteMissingFields" /\ probe.applied

\* the fields of a quote that hold its data (providerTrace is its log)
QuoteDataFields ==
  {"symbol", "shortName", "regularMarketPrice", "previousClose", "marketCap", "ema50", "ema200", "thirtyWeekSma", "marketCycleStage", "source"}

\* the quote carries a name of its own, not the bare symbol put in its place
HasOwnName(quote) == quote.shortName # stripExchangeSuffix(quote.symbol)

\* C26 as stated: the enrichment merge changes no field of the resolved quote
\* that holds a value; it only fills missing fields.
C26_PresentFieldsKept ==
  Filled =>
    /\ probe.merged.dataStatus = probe.baseQuote.dataStatus
    /\ \A f \in QuoteDataFields :
         ~isMissingValue(probe.baseQuote[f]) => probe.merged[f] = probe.baseQuote[f]

\* C26 amended: the enrichment merge changes no field of the resolved quote
\* that holds a value, except a shortName that is the bare symbol: that one is
\* replaced by the candidate's name.
C26_PresentFieldsKeptButBareName ==
  Filled =>
    /\ probe.merged.dataStatus = probe.baseQuote.dataStatus
    /\ \A f \in QuoteDataFields \ {"shortName"} :
         ~isMissingValue(probe.baseQuote[f]) => probe.merged[f] = probe.baseQuote[f]
    /\ IF HasOwnName(probe.baseQuote)
       THEN probe.merged.shortName = probe.baseQuote.shortName
       ELSE probe.merged.shortName = probe.candidateQuote.shortName

\* C26 witness: the base has a market cap and a name of its own and lacks
\* ema50; the candidate has another market cap, another name and an ema50;
\* the merge keeps the first two and fills the third
C26_KeptAndFilled ==
  /\ Filled
  /\ ~isMissingValue(probe.baseQuote.marketCap)
  /\ ~isMissingValue(probe.candidateQuote.marketCap)
  /\ probe.candidateQuote.marketCap # probe.baseQuote.marketCap
  /\ HasOwnName(probe.baseQuote) /\ HasOwnName(probe.candidateQuote)
  /\ isMissingValue(probe.baseQuote.ema50) /\ ~isMissingValue(probe.candidateQuote.ema50)
  /\ probe.merged.marketCap = probe.baseQuote.marketCap
  /\ probe.merged.shortName = probe.baseQuote.shortName
  /\ probe.merged.ema50 = probe.candidateQuote.ema50

\* C27: technical enrichment fills ema50, ema200 and marketCycleStage of a
\* quote only where they are missing: a value the quote already holds is not
\* replaced by the value of the technical snapshot.
C27_PresentTechnicalsKept ==
  probe.fn = "enrichQuotesWithTechnicals" /\ probe.applied =>
    \A f \in {"ema50", "ema200", "marketCycleStage"} :
      ~isMissingValue(probe.quote[f]) => probe.enriched[f] = probe.quote[f]

\* C28: in the enrichment pass a provider is asked for a resolved symbol only
\* if it comes after the provider that resolved the symbol: neither the
\* resolving provider nor a provider that was already called for the symbol
\* in the resolution pass is called for it again.
C28_EnrichmentAsksOnlyLaterProviders ==
  \A c \in CallerIds :
    call[c].pc = "enrich" =>
      LET provider == ProviderOrder(config)[call[c].idx]
          st == call[c].st
      IN \A s \in SeqToSet(EnrichTargets(st)) :
           /\ st.resultMap[s].source # <<provider>>
           /\ s \in DOMAIN st.attemptsBySymbol =>
                \A j \in 1..Len(st.attemptsBySymbol[s]) :
                  st.attemptsBySymbol[s][j][1] = provider =>
                    st.attemptsBySymbol[s][j][2] = "skip"

\* what a failed provider call of the resolution pass leaves behind: the call
\* goes on, every target is still pending and has one error entry of that
\* provider, followed only by the skip entries of the providers skipped next,
\* and the same targets go to the next provider of the order that is not
\* skipped, if there is one
FailedStep(cl, nx, provider, targets) ==
  LET order == ProviderOrder(config)
      later == {i \in (cl.idx + 1)..Len(order) : getProviderSkipReason(order[i], config) = ""}
  IN /\ ~nx.threw
     /\ nx.st.pending = cl.st.pending
     /\ nx.st.resultMap = cl.st.resultMap
     /\ \A s \in DOMAIN cl.st.attemptsBySymbol :
          LET was == cl.st.attemptsBySymbol[s]
              now == nx.st.attemptsBySymbol[s]
          IN IF s \in SeqToSet(targets)
             THEN /\ Len(now) > Len(was)
                  /\ SubSeq(now, 1, Len(was)) = was
                  /\ now[Len(was) + 1] = <<provider, "error">>
                  /\ \A j \in (Len(was) + 2)..Len(now) : now[j][2] = "skip"
             ELSE now = was
     /\ IF later = {} THEN nx.pc # "resolve"
        ELSE /\ nx.pc = "resolve"
             /\ \A i \in later : nx.idx <= i
             /\ nx.idx \in later
             /\ PendingTargets(nx) = targets

\* C29: a provider call of the resolution pass that throws or times out marks
\* only that provider failed for the symbols pending at that moment, and each
\* of them is offered to the next provider of the effective order that is not
\* skipped.
C29_FailureAdvancesTheCascade ==
  [][\A c \in CallerIds :
       (/\ call[c].pc = "resolve"
        /\ call'[c] # call[c]
        /\ call'[c].lastProvider = call[c].lastProvider
        /\ call'[c].lastResp = call[c].lastResp) =>
         FailedStep(call[c], call'[c], ProviderOrder(config)[call[c].idx],
                    PendingTargets(call[c]))]_vars

\* C29 witness: in a call for two symbols the first provider failed, both
\* symbols stayed pending with that one error entry, the keyless vendor after
\* it was skipped, and the next provider was sent both and resolved them
C29_ResolvedAfterFailure ==
  \E c \in CallerIds : \E s, t \in DOMAIN call[c].st.attemptsBySymbol :
    /\ s # t
    /\ call[c].st.pending = {}
    /\ \A u \in {s, t} :
         /\ call[c].st.attemptsBySymbol[u]
              = << <<"bseindia", "error">>, <<"twelvedata", "skip", "missing-api-key">> >>
         /\ u \in DOMAIN call[c].st.resultMap
         /\ call[c].st.resultMap[u].source = <<"screener">>
         /\ PricePositive(call[c].st.resultMap[u].regularMarketPrice)

\* the outcomes the resolution pass records for a provider that did not
\* resolve the symbol
AttemptKinds == {"skip", "error", "unusable", "miss"}

\* C37: in the resolution pass the trace of a symbol holds one entry for each
\* provider reached while the symbol was pending, in the order of the
\* providers, each a skip, an error, an unusable or a miss; a pending symbol
\* has an entry for every provider before the one being asked, a symbol left
\* unresolved one for every provider, and the trace of a resolved symbol is
\* those entries followed by the hit of the next provider (and after it only
\* what the enrichment pass adds).
C37_OneTraceEntryPerProvider ==
  \A c \in CallerIds :
    LET st == call[c].st
        order == ProviderOrder(config)
    IN \A s \in DOMAIN st.attemptsBySymbol :
         LET attempts == st.attemptsBySymbol[s]
             n == Len(attempts)
         IN /\ n <= Len(order)
            /\ \A j \in 1..n : attempts[j][1] = order[j] /\ attempts[j][2] \in AttemptKinds
            /\ s \in st.pending =>
                 /\ s \notin DOMAIN st.resultMap
                 /\ n = (IF call[c].pc = "resolve" THEN call[c].idx - 1 ELSE Len(order))
            /\ s \notin st.pending =>
                 /\ s \in DOMAIN st.resultMap
                 /\ n < Len(order)
                 /\ LET trace == st.resultMap[s].providerTrace
                    IN /\ Len(trace) > n
                       /\ SubSeq(trace, 1, n) = attempts
                       /\ trace[n + 1] = <<"hit", order[n + 1]>>
                       /\ \A j \in (n + 2)..Len(trace) : trace[j][1] = "enrich"

\* C37 witness: of two symbols sent together, one was answered unusably by the
\* first provider and resolved by the third, the other was missed by the first
\* and answered unusably by the third; the keyless vendor between them was
\* skipped for both
C37_TracesOfAPair ==
  \E c \in CallerIds : \E s, t \in DOMAIN call[c].st.attemptsBySymbol :
    /\ call[c].st.attemptsBySymbol[s]
         = << <<"bseindia", "unusable">>, <<"twelvedata", "skip", "missing-api-key">> >>
    /\ s \in DOMAIN call[c].st.resultMap
    /\ call[c].st.resultMap[s].providerTrace[3] = <<"hit", "screener">>
    /\ call[c].st.attemptsBySymbol[t]
         = << <<"bseindia", "miss">>, <<"twelvedata", "skip", "missing-api-key">>,
              <<"screener", "unusable">> >>
    /\ t \in call[c].st.pending

\* what a lookup in progress has gathered: the snapshot of
\* getTechnicalSnapshot merged with what the alias step holds
Accumulated ==
  mergeTechnicalSnapshots(
    mergeTechnicalSnapshots(probe.snapshot, probe.mergedSnapshot, probe.priceHint),
    probe.candidateSnapshot, probe.priceHint)

\* C30: within one technical lookup no source is queried once the snapshot
\* accumulated so far has both ema50 and ema200: whenever the lookup is about
\* to send a request, one of the two is still missing.
C30_NoQueryOnceComplete ==
  probe.fn = "getTechnicalSnapshot"
    /\ probe.pc \in {"source", "alias-tradingview", "alias-yahoo"} =>
      ~hasCompleteEmaSnapshot(Accumulated)

\* C31: every quote getQuotes returns with dataStatus "stale" carries a
\* price above zero.
C31_StaleQuoteHasPrice ==
  \A c \in Returned : \A i \in 1..Len(call[c].result) :
    call[c].result[i].dataStatus = "stale" =>
      PricePositive(call[c].result[i].regularMarketPrice)

\* C32: a failed extraction does not destroy a good cache entry: an unforced
\* call made less than 6 hours after an available report was cached for its
\* key, a forced refresh for the key having failed in between, returns an
\* available report with the rows of that report.
C32_GoodEntrySurvivesFailedRefresh ==
  (fin.afterFailedRefresh /\ fin.pc = "done") =>
     /\ ~fin.threw
     /\ fin.result.dataStatus = "available"
     /\ fin.result.rows = fin.good.rows
     /\ fin.result.quarterLabels = fin.good.quarterLabels

\* C33: two getQuotes calls for the same symbol overlapped (neither found a
\* cache entry when it began), one obtained a usable quote from a provider and
\* the other found every provider failing; once both have returned, the cache
\* entry of the symbol is the live quote.
C33_OverlapKeepsLiveQuote ==
  \A a, b \in Returned :
    (/\ a # b
     /\ call[a].symbols = <<RawANs>> /\ call[b].symbols = <<RawANs>>
     /\ ~call[a].startCache[RawANs].present
     /\ ~call[b].startCache[RawANs].present
     /\ call[a].result[1].dataStatus = "live"
     /\ AllProvidersFailed(b, RawANs))
    => /\ cacheKey(RawANs) \in DOMAIN quoteCache
       /\ quoteCache[cacheKey(RawANs)].value.dataStatus = "live"
       /\ quoteCache[cacheKey(RawANs)].value.regularMarketPrice
            = call[a].result[1].regularMarketPrice

StaleSuffixes(source) == Cardinality({j \in 1..Len(source) : source[j] = "stale"})

StaleEntries(trace) == Cardinality({j \in 1..Len(trace) : trace[j][1] = "stale-cache"})

\* C34: however many getQuotes calls in a row fail for a symbol, the source of
\* the stale quote returned for it contains the suffix ":stale" exactly once.
C34_StaleSuffixOnce ==
  \A c \in Returned : \A i \in 1..Len(call[c].result) :
    call[c].result[i].dataStatus = "stale" =>
      /\ StaleSuffixes(call[c].result[i].source) = 1
      /\ call[c].result[i].source[Len(call[c].result[i].source)] = "stale"

\* C34 witness: a call returned a stale quote with a price for the second
\* time in a row, the one before having been served stale as well
C34_StaleTwiceInARow ==
  \E c \in Returned :
    /\ Len(call[c].result) = 1
    /\ call[c].result[1].dataStatus = "stale"
    /\ PricePositive(call[c].result[1].regularMarketPrice)
    /\ AllProvidersFailed(c, call[c].symbols[1])
    /\ StaleEntries(call[c].result[1].providerTrace) >= 2

RunsInProgress ==
  {r \in SalesCallIds : probe.runs[r].pc \in {"workers", "saving", "resaving"}}

\* C35: at most one daily-sales snapshot run is in progress at any time: a
\* refreshDailySalesSnapshot call made after an earlier call began and before
\* its run finished does not start a second run.
C35_OneRunAtATime ==
  probe.fn = "refreshDailySalesSnapshot" => Cardinality(RunsInProgress) <= 1

RunOver(r) == probe.runs[r].pc \in {"saving", "resaving", "done"}

\* C36: when a snapshot run completes, every target symbol has been processed
\* exactly once over all workers, and processed = success + failed =
\* totalSymbols.
C36_EverySymbolOnce ==
  probe.fn = "refreshDailySalesSnapshot" =>
    \A r \in SalesCallIds :
      RunOver(r) =>
        LET run == probe.runs[r]
        IN /\ \A i \in 1..run.total : run.handled[i] = 1
           /\ run.processed = run.total
           /\ run.success + run.failed = run.processed
           /\ run.final.totalSymbols = probe.targets
           /\ run.final.processed = run.final.totalSymbols
           /\ run.final.success + run.final.failed = run.final.processed

\* C36 witness: a run over several symbols, shared by more than one worker,
\* some extractions good and some not, has completed
C36_PoolFinished ==
  /\ probe.fn = "refreshDailySalesSnapshot"
  /\ \E r \in SalesCallIds :
       /\ probe.runs[r].pc = "done"
       /\ probe.runs[r].total = MaxSymbols
       /\ Len(probe.runs[r].workers) >= 2
       /\ probe.runs[r].success >= 1
       /\ probe.runs[r].failed >= 1
       /\ probe.runs[r].final.status = "completed"

====
